---- MODULE Spec2Model ----
(***************************************************************************)
(* Model of the authoritative game-state engine of Dominion                *)
(* (src/shared/GameState.js) together with the Territory entity it         *)
(* mutates (src/shared/AIBot.js, class Territory).                         *)
(*                                                                         *)
(* Numbers: troop counts are integers.  Math.floor(n * 0.7), (n * 0.6),    *)
(* (n * 0.5) and (n * 0.3) are computed with integer division; the IEEE    *)
(* double results agree with it for every n < 90, which covers every troop *)
(* count the bounds below allow.  A combat multiplier 0.8 + Math.random()  *)
(* * 0.4 lies in [0.8, 1.2) and is represented in hundredths (80..119).    *)
(***************************************************************************)
EXTENDS Integers, Sequences, FiniteSets, TLC

\* ---------------------------------------------------------------- bounds
MaxPlayers == 3
MaxTurn == 1
MaxAttacks == 2
MaxTroops == 12
CampaignAttacks == 3
CampaignTurns == 3
MaxSeeds == 4
MaxServerTurn == 2
MaxServerAttacks == 1
MaxRejected == 31
EndgameAttacks == 4
EndgameTurns == 1

\* Configurations the engine is constructed with (config.territoryCount,
\* config.troopGenerationRate).
TerritoryCounts == {1, 2, 3, 4}
Rates == {1}

\* ------------------------------------------------------ program constants
StartingTroops == 15
NeutralTroops == 5
PaletteSize == 8
LobbyMaxPlayers == 8
NeighborThreshold == 150
InitialTroops == 10
ServerTerritoryCount == 60
maxAttempts == 30
gridSize == 10
DefaultTerritoryCount == 60
DefaultTroopGenerationRate == 1

\* The "unowned"/"no winner" sentinel (JavaScript null).
Null == "null"

\* Session identities the transport hands to the engine, in lobby order.
RosterIds == <<"a", "b", "c", "d", "e", "f", "g", "h">>

\* An identity that is never part of a roster.
Stranger == "zz"

\* Multipliers 0.8 + Math.random() * 0.4, in hundredths.
Rolls == {80, 100, 119}

\* Marker for "Math.random() was not called".
NoRoll == "none"

VARIABLES
    territories,          \* this.territories: id -> [owner, troops, neighbors]
    players,              \* this.players: sequence of player records
    currentTurn,          \* this.currentTurn
    turnStartTime,        \* this.turnStartTime: the clock reading it holds
    gamePhase,            \* this.gamePhase
    winner,               \* this.winner (id of the winning player record, or Null)
    territoryCount,       \* this.territoryCount (configuration)
    troopGenerationRate,  \* this.troopGenerationRate (configuration)
    attacks,              \* number of resolved attacks since initializeGame
    lastCall,             \* the operation most recently invoked, with its inputs
    result,               \* what that operation returned
    server,               \* the server around the engine: lobby, room, timeouts
    sampler,              \* MapGenerator.generatePoints while it runs: its locals
    snapshot,             \* the object a serialize() call returned, kept by its caller
    restored              \* the GameState a deserialize() call built

vars == <<territories, players, currentTurn, turnStartTime, gamePhase, winner,
          territoryCount, troopGenerationRate, attacks, lastCall, result, server,
          sampler, snapshot, restored>>

\* ------------------------------------------------------------- helpers
Ids(terr) == DOMAIN terr

RECURSIVE SumOver(_, _)
SumOver(S, f) ==
    IF S = {} THEN 0
    ELSE LET x == CHOOSE y \in S : TRUE
         IN f[x] + SumOver(S \ {x}, f)

Max(a, b) == IF a >= b THEN a ELSE b

OwnedBy(terr, id) == {t \in Ids(terr) : terr[t].owner = id}

\* Territory.isAdjacentTo
isAdjacentTo(t, territoryId) == territoryId \in t.neighbors

\* MapGenerator.calculateNeighbors on two seed layouts: seeds in a row, 100
\* apart (each within the 150 threshold of the next one only), and seeds on a
\* circle with 100 between consecutive ones (and at least 150 otherwise).
\* A single territory has no neighbor.
RowMap(n) == [i \in 0 .. n - 1 |-> {j \in 0 .. n - 1 : j = i - 1 \/ j = i + 1}]
RingMap(n) ==
    [i \in 0 .. n - 1 |-> {j \in 0 .. n - 1 : j # i /\ (j = (i + 1) % n \/ i = (j + 1) % n)}]
GeneratedMaps(n) == {RowMap(n), RingMap(n)}

\* GameState.getPlayerColor (index into the palette)
getPlayerColor(index) == index % PaletteSize

\* updatePlayerStats without the recomputation of the alive flag
updatePlayerStatsKeepAlive(ps, terr) ==
    [i \in 1 .. Len(ps) |->
        LET owned == OwnedBy(terr, ps[i].id)
        IN [ps[i] EXCEPT
              !.territoriesOwned = Cardinality(owned),
              !.totalTroops = SumOver(owned, [t \in owned |-> terr[t].troops])]]

\* updatePlayerStats that leaves territoriesOwned as it was
updatePlayerStatsStaleCount(ps, terr) ==
    [i \in 1 .. Len(ps) |->
        LET owned == OwnedBy(terr, ps[i].id)
        IN [ps[i] EXCEPT
              !.totalTroops = SumOver(owned, [t \in owned |-> terr[t].troops]),
              !.isAlive = Cardinality(owned) > 0]]

\* updatePlayerStats that takes eliminated players off the roster
updatePlayerStatsDropDead(ps, terr) ==
    SelectSeq([i \in 1 .. Len(ps) |->
                  LET owned == OwnedBy(terr, ps[i].id)
                  IN [ps[i] EXCEPT
                        !.territoriesOwned = Cardinality(owned),
                        !.totalTroops = SumOver(owned, [t \in owned |-> terr[t].troops]),
                        !.isAlive = Cardinality(owned) > 0]],
              LAMBDA p : p.isAlive)

\* GameState.updatePlayerStats
updatePlayerStats(ps, terr) ==
    [i \in 1 .. Len(ps) |->
        LET owned == OwnedBy(terr, ps[i].id)
        IN [ps[i] EXCEPT
              !.territoriesOwned = Cardinality(owned),
              !.totalTroops = SumOver(owned, [t \in owned |-> terr[t].troops]),
              !.isAlive = Cardinality(owned) > 0]]

\* GameState.getCurrentPlayer (index into the roster, 1-based)
CurrentIndex(ps, turn) == (turn % Len(ps)) + 1
getCurrentPlayer(ps, turn) == ps[CurrentIndex(ps, turn)]

alivePlayers(ps) == SelectSeq(ps, LAMBDA p : p.isAlive)

\* checkWinCondition that ends the game without recording the winner
checkWinConditionNoWinner(ps, phase, win) ==
    LET alive == alivePlayers(ps)
    IN IF Len(alive) = 1 THEN <<"ended", win>>
       ELSE IF Len(alive) = 0 THEN <<"ended", Null>>
       ELSE <<phase, win>>

\* GameState.checkWinCondition: the pair <<gamePhase, winner>> it leaves
checkWinCondition(ps, phase, win) ==
    LET alive == alivePlayers(ps)
    IN IF Len(alive) = 1 THEN <<"ended", alive[1].id>>
       ELSE IF Len(alive) = 0 THEN <<"ended", Null>>
       ELSE <<phase, win>>

\* validateAttack with the two territories taken for each other in the
\* ownership checks
validateAttackSwapped(terr, fromId, toId, playerId) ==
    /\ fromId \in Ids(terr)
    /\ toId \in Ids(terr)
    /\ terr[toId].owner = playerId
    /\ terr[fromId].owner # playerId
    /\ terr[fromId].troops > 1
    /\ isAdjacentTo(terr[fromId], toId)

\* validateAttack without the adjacency check
validateAttackNoAdjacency(terr, fromId, toId, playerId) ==
    /\ fromId \in Ids(terr)
    /\ toId \in Ids(terr)
    /\ terr[fromId].owner = playerId
    /\ terr[toId].owner # playerId
    /\ terr[fromId].troops > 1

\* GameState.validateAttack
validateAttack(terr, fromId, toId, playerId) ==
    /\ fromId \in Ids(terr)
    /\ toId \in Ids(terr)
    /\ terr[fromId].owner = playerId
    /\ terr[toId].owner # playerId
    /\ terr[fromId].troops > 1
    /\ isAdjacentTo(terr[fromId], toId)

\* The line of validateAttack that returns for these inputs
rejectedAt(terr, fromId, toId, playerId) ==
    IF fromId \notin Ids(terr) \/ toId \notin Ids(terr) THEN 172
    ELSE IF terr[fromId].owner # playerId THEN 173
    ELSE IF terr[toId].owner = playerId THEN 174
    ELSE IF terr[fromId].troops <= 1 THEN 175
    ELSE IF ~isAdjacentTo(terr[fromId], toId) THEN 176
    ELSE 177

\* generateTroops reinforcing every territory, owned or not
generateTroopsEverywhere(terr, rate) ==
    [t \in Ids(terr) |-> [terr[t] EXCEPT !.troops = @ + rate]]

\* GameState.generateTroops
generateTroops(terr, rate) ==
    [t \in Ids(terr) |->
        IF terr[t].owner # Null
        THEN [terr[t] EXCEPT !.troops = @ + rate]
        ELSE terr[t]]

\* ----------------------------------------------------------------- Init
\* Date.now(): a reading of the clock, named by the line that takes it
\* (19 the constructor, 55 initializeGame, 185 nextTurn)
DateNow(line) == [now |-> line]

NoResult == [kind |-> "none"]

\* The engine used on its own: no lobby, no room, no timeout.
NoSampler == [state |-> "idle"]
NoSnapshot == [taken |-> FALSE]
NoRestored == [built |-> FALSE]

NoServer ==
    [lobbyPlayers |-> <<>>, startRequests |-> 0, gameStarted |-> FALSE, room |-> 0,
     turnTimer |-> {}, timers |-> {}, event |-> [kind |-> "none", timer |-> {}],
     emitted |-> {}]

Init ==
    /\ server = NoServer
    /\ sampler = NoSampler
    /\ snapshot = NoSnapshot
    /\ restored = NoRestored
    /\ territories = <<>>
    /\ players = <<>>
    /\ currentTurn = 0
    /\ turnStartTime = DateNow(19)
    /\ gamePhase = "lobby"
    /\ winner = Null
    /\ territoryCount \in TerritoryCounts
    /\ troopGenerationRate \in Rates
    /\ attacks = 0
    /\ lastCall = [op |-> "constructor"]
    /\ result = NoResult

\* -------------------------------------------------------------- actions
\* The share of each player without the halving
territoriesPerPlayerWholeMap(n, count) == IF count = 0 THEN 0 ELSE n \div count

\* floor(territories.length / players.length / 2); division by zero gives
\* Infinity in JavaScript, and no player is there to be dealt anything.
territoriesPerPlayer(n, count) == IF count = 0 THEN 0 ELSE (n \div count) \div 2

\* Outcomes of the shuffle [...territories].sort(() => Math.random() - 0.5):
\* the array left in id order, and the order "even ids, then odd ids".
IdOrder(n) == [k \in 1 .. n |-> k - 1]
Interleaved(n) ==
    [k \in 1 .. n |->
        LET half == (n + 1) \div 2
        IN IF k <= half THEN 2 * (k - 1) ELSE 2 * (k - half) - 1]
Shuffles(n) == {IdOrder(n), Interleaved(n)}

\* GameState.assignStartingTerritories (before its updatePlayerStats)
assignStartingTerritories(ps, map, shuffled) ==
    LET n == Len(shuffled)
        perPlayer == territoriesPerPlayer(n, Len(ps))
        dealt == Len(ps) * perPlayer
        pos(t) == CHOOSE k \in 1 .. n : shuffled[k] = t
    IN [t \in 0 .. n - 1 |->
          IF pos(t) <= dealt
          THEN [owner |-> ps[((pos(t) - 1) \div perPlayer) + 1].id,
                troops |-> StartingTroops,
                neighbors |-> map[t]]
          ELSE [owner |-> Null, troops |-> NeutralTroops, neighbors |-> map[t]]]

\* Lines 32-55 of initializeGame: what it writes
initializeGameFields(count, map, shuffled) ==
    LET fresh == [idx \in 1 .. count |->
                    [id |-> RosterIds[idx],
                     color |-> getPlayerColor(idx - 1),
                     isAlive |-> TRUE,
                     territoriesOwned |-> 0,
                     totalTroops |-> 0]]
        terr == assignStartingTerritories(fresh, map, shuffled)
    IN /\ territories' = terr
       /\ players' = updatePlayerStats(fresh, terr)
       /\ gamePhase' = "playing"
       /\ currentTurn' = 0
       /\ turnStartTime' = DateNow(55)
       /\ attacks' = 0
       /\ lastCall' = [op |-> "initializeGame", count |-> count]
       /\ result' = NoResult

\* GameState.initializeGame on an engine that exists already
initializeGame(count, map, shuffled) ==
    /\ initializeGameFields(count, map, shuffled)
    /\ UNCHANGED <<winner, territoryCount, troopGenerationRate>>

\* The comparison of the rolls with ties going to the attacker
attackerWinsTies(attackRoll, defenseRoll) == attackRoll >= defenseRoll

\* Line 137: the comparison of the two rolls
attackerWins(attackRoll, defenseRoll) == attackRoll > defenseRoll

\* A conquest that moves every troop out of the origin
troopsToMoveAll(fromTroops) == fromTroops

\* Line 139: Math.floor(from.troops * 0.7)
troopsToMove(fromTroops) == (fromTroops * 7) \div 10

\* The survivors without the minimum of one
survivingTroopsNoMinimum(moved) == (moved * 6) \div 10

\* Line 140: Math.max(1, Math.floor(troopsToMove * 0.6))
survivingTroops(moved) == Max(1, (moved * 6) \div 10)

\* The attacker's losses computed from the troops of from, not from the
\* attack power
attackerLossesFromTroops(attackPower) == ((attackPower + 1) * 5) \div 10

\* Line 151: Math.floor(attackPower * 0.5)
attackerLosses(attackPower) == (attackPower * 5) \div 10

\* The defender's losses with the sign reversed
defenderLossesAdded(defensePower) == 0 - ((defensePower * 3) \div 10)

\* Line 152: Math.floor(defensePower * 0.3)
defenderLosses(defensePower) == (defensePower * 3) \div 10

\* The engine as a value: the fields of the GameState object that the
\* operations below read and write.
Engine ==
    [territories |-> territories, players |-> players, currentTurn |-> currentTurn,
     turnStartTime |-> turnStartTime,
     gamePhase |-> gamePhase, winner |-> winner, attacks |-> attacks,
     lastCall |-> lastCall, result |-> result]

\* GameState.processAttack on the engine g: the engine it leaves, with the
\* returned object in g.result.  ra and rd are the two multipliers drawn.
resolveAttack(g, fromId, toId, playerId, ra, rd) ==
    IF ~validateAttack(g.territories, fromId, toId, playerId)
    THEN [g EXCEPT
            !.lastCall = [op |-> "processAttack", fromId |-> fromId, toId |-> toId,
                          playerId |-> playerId],
            !.result = [kind |-> "attack", success |-> FALSE, error |-> "Invalid attack"]]
    ELSE
      LET from == g.territories[fromId]
          to == g.territories[toId]
          attackPower == from.troops - 1
          defensePower == to.troops
          attackRoll == attackPower * ra
          defenseRoll == defensePower * rd
          conquered == attackerWins(attackRoll, defenseRoll)
          moved == troopsToMove(from.troops)
          surviving == survivingTroops(moved)
          lostByAttacker == attackerLosses(attackPower)
          lostByDefender == defenderLosses(defensePower)
          terr == IF conquered
                  THEN [g.territories EXCEPT
                          ![fromId].troops = from.troops - moved,
                          ![toId].owner = from.owner,
                          ![toId].troops = surviving]
                  ELSE [g.territories EXCEPT
                          ![fromId].troops = from.troops - lostByAttacker,
                          ![toId].troops = Max(1, to.troops - lostByDefender)]
          ps == updatePlayerStats(g.players, terr)
          win == checkWinCondition(ps, g.gamePhase, g.winner)
      IN [g EXCEPT
            !.territories = terr,
            !.players = ps,
            !.gamePhase = win[1],
            !.winner = win[2],
            !.attacks = @ + 1,
            !.lastCall = [op |-> "processAttack", fromId |-> fromId, toId |-> toId,
                          playerId |-> playerId],
            !.result = [kind |-> "attack", success |-> TRUE, conquered |-> conquered,
                        attackerLosses |-> IF conquered THEN moved - surviving
                                           ELSE lostByAttacker,
                        defenderLosses |-> IF conquered THEN defensePower
                                           ELSE lostByDefender,
                        fromId |-> fromId, toId |-> toId]]

processAttack(fromId, toId, playerId, ra, rd) ==
    LET g == resolveAttack(Engine, fromId, toId, playerId, ra, rd)
    IN /\ territories' = g.territories
       /\ players' = g.players
       /\ gamePhase' = g.gamePhase
       /\ winner' = g.winner
       /\ attacks' = g.attacks
       /\ lastCall' = g.lastCall
       /\ result' = g.result
       /\ UNCHANGED <<currentTurn, turnStartTime, territoryCount, troopGenerationRate>>

\* The while loop of nextTurn never entered
SkipDeadNever(ps, turn, attempts) == turn

\* The while loop of nextTurn: the turn counter it stops at
RECURSIVE SkipDead(_, _, _)
SkipDead(ps, turn, attempts) ==
    IF ~getCurrentPlayer(ps, turn).isAlive /\ attempts < Len(ps)
    THEN SkipDead(ps, turn + 1, attempts + 1)
    ELSE turn

\* GameState.nextTurn on the engine g, configured with the generation rate
\* `rate`: the engine it leaves.  lastCall records how many roster positions
\* the while loop passed over.
advanceTurn(g, rate) ==
    LET terr == generateTroops(g.territories, rate)
    IN IF Len(g.players) = 0
       THEN \* players[NaN] is undefined: reading .isAlive throws a TypeError
            [g EXCEPT
               !.territories = terr,
               !.currentTurn = @ + 1,
               !.turnStartTime = DateNow(185),
               !.lastCall = [op |-> "nextTurn", skipped |-> 0],
               !.result = [kind |-> "threw"]]
       ELSE LET turn == SkipDead(g.players, g.currentTurn + 1, 0)
            IN [g EXCEPT
                  !.territories = terr,
                  !.currentTurn = turn,
                  !.turnStartTime = DateNow(185),
                  !.lastCall = [op |-> "nextTurn",
                                skipped |-> turn - (g.currentTurn + 1)],
                  !.players = updatePlayerStats(g.players, terr),
                  !.result = NoResult]

nextTurn ==
    \E g \in {advanceTurn(Engine, troopGenerationRate)} :
       /\ territories' = g.territories
       /\ currentTurn' = g.currentTurn
       /\ turnStartTime' = g.turnStartTime
       /\ lastCall' = g.lastCall
       /\ players' = g.players
       /\ result' = g.result
       /\ UNCHANGED <<gamePhase, winner, territoryCount, troopGenerationRate, attacks>>

\* --------------------------------------------------------- specification
CallInitializeGame ==
    /\ \E count \in 0 .. MaxPlayers :
       \E map \in GeneratedMaps(territoryCount) :
       \E shuffled \in Shuffles(territoryCount) :
          initializeGame(count, map, shuffled)
    /\ UNCHANGED <<server, sampler, snapshot, restored>>

\* Inputs of processAttack: territory ids in and just out of range, the
\* roster identities, null and an identity outside every roster.
AttackInputs ==
    (-1 .. territoryCount) \X (-1 .. territoryCount)
        \X ({RosterIds[i] : i \in 1 .. MaxPlayers} \cup {Null, Stranger})

CallProcessAttack ==
    /\ attacks < MaxAttacks
    /\ \E x \in AttackInputs :
          /\ validateAttack(territories, x[1], x[2], x[3])
          /\ \E ra \in Rolls : \E rd \in Rolls :
                processAttack(x[1], x[2], x[3], ra, rd)
    /\ UNCHANGED <<server, sampler, snapshot, restored>>

\* A rejected call leaves the same state whatever its inputs: one call is
\* taken, among those that get furthest through validateAttack.
RejectedCalls ==
    LET rejected == {x \in AttackInputs :
                        ~validateAttack(territories, x[1], x[2], x[3])}
        lines == {rejectedAt(territories, x[1], x[2], x[3]) : x \in rejected}
        deepest == CHOOSE l \in lines : \A m \in lines : m <= l
    IN IF rejected = {} THEN {}
       ELSE {CHOOSE x \in rejected :
                rejectedAt(territories, x[1], x[2], x[3]) = deepest}

CallProcessAttackRejected ==
    /\ \E x \in RejectedCalls : processAttack(x[1], x[2], x[3], NoRoll, NoRoll)
    /\ UNCHANGED <<server, sampler, snapshot, restored>>

CallNextTurn ==
    /\ currentTurn < MaxTurn
    /\ nextTurn
    /\ UNCHANGED <<server, sampler, snapshot, restored>>

Next ==
    \/ CallInitializeGame
    \/ CallProcessAttack
    \/ CallProcessAttackRejected
    \/ CallNextTurn

Spec == Init /\ [][Next]_vars

\* ------------------------------------------------- combat resolution
\* Mid-game positions of a two-player game on four territories in a ring:
\* player a holds territory 0 with T troops, player b territory 1 with D
\* troops, territories 2 and 3 are neutral.  One processAttack call is made,
\* before or after a turn advance.
CombatPosition(T, D) ==
    LET dealt == assignStartingTerritories(
                    [i \in 1 .. 2 |-> [id |-> RosterIds[i]]], RingMap(4), IdOrder(4))
    IN [dealt EXCEPT ![0].troops = T, ![1].troops = D]

InitCombat ==
    \E T \in 1 .. MaxTroops, D \in 1 .. MaxTroops :
        /\ territories = CombatPosition(T, D)
        /\ players = updatePlayerStats(
                        [idx \in 1 .. 2 |->
                            [id |-> RosterIds[idx],
                             color |-> getPlayerColor(idx - 1),
                             isAlive |-> TRUE,
                             territoriesOwned |-> 0,
                             totalTroops |-> 0]],
                        CombatPosition(T, D))
        /\ currentTurn = 0
        /\ turnStartTime = DateNow(55)
        /\ gamePhase = "playing"
        /\ winner = Null
        /\ territoryCount = 4
        /\ troopGenerationRate = 1
        /\ attacks = MaxAttacks - 1
        /\ lastCall = [op |-> "position"]
        /\ result = NoResult
        /\ server = NoServer
        /\ sampler = NoSampler
        /\ snapshot = NoSnapshot
        /\ restored = NoRestored

NextCombat ==
    \/ CallProcessAttack
    \/ CallProcessAttackRejected
    \/ CallNextTurn

SpecCombat == InitCombat /\ [][NextCombat]_vars

\* ------------------------------------------------------- a longer game
\* Three players on six territories in a ring, dealt in id order (a, b and c
\* hold territories 0, 1 and 2).  Every attack is resolved with one of the
\* pairs of multipliers below, which lets the behaviours go further: several
\* conquests and eliminations, and turn advances from every roster position.
\* The troop generation rate is not the default 1, so that a gain of "rate"
\* differs from a gain of one troop.
CampaignRolls == {<<119, 80>>, <<80, 119>>}
CampaignRates == {2}

InitCampaign ==
    /\ server = NoServer
    /\ sampler = NoSampler
    /\ snapshot = NoSnapshot
    /\ restored = NoRestored
    /\ territories = <<>>
    /\ players = <<>>
    /\ currentTurn = 0
    /\ turnStartTime = DateNow(19)
    /\ gamePhase = "lobby"
    /\ winner = Null
    /\ territoryCount = 6
    /\ troopGenerationRate \in CampaignRates
    /\ attacks = 0
    /\ lastCall = [op |-> "constructor"]
    /\ result = NoResult

CampaignInitializeGame ==
    /\ gamePhase = "lobby"
    /\ initializeGame(3, RingMap(territoryCount), IdOrder(territoryCount))
    /\ UNCHANGED <<server, sampler, snapshot, restored>>

CampaignProcessAttack ==
    /\ attacks < CampaignAttacks
    /\ \E x \in AttackInputs :
          /\ validateAttack(territories, x[1], x[2], x[3])
          /\ \E r \in CampaignRolls : processAttack(x[1], x[2], x[3], r[1], r[2])
    /\ UNCHANGED <<server, sampler, snapshot, restored>>

CampaignNextTurn ==
    /\ gamePhase # "lobby"
    /\ currentTurn < CampaignTurns
    /\ nextTurn
    /\ UNCHANGED <<server, sampler, snapshot, restored>>

NextCampaign ==
    \/ CampaignInitializeGame
    \/ CampaignProcessAttack
    \/ CampaignNextTurn

SpecCampaign == InitCampaign /\ [][NextCampaign]_vars

\* ------------------------------------------------------------- the bot
\* AIBot.getAggressiveness, in tenths
getAggressiveness(difficulty) ==
    IF difficulty = "easy" THEN 3
    ELSE IF difficulty = "hard" THEN 8
    ELSE 5

\* Lines 83-121 of evaluateAttack: the sum of the six factors, before the
\* aggressiveness modifier.  An owner that is not in gameState.players
\* contributes nothing to factor 3.
scoreBeforeModifier(from, to, terr, ps, playerId) ==
    LET troopAdvantage == from.troops - to.troops
        opponents == {i \in 1 .. Len(ps) : ps[i].id = to.owner}
        weakness == IF to.owner = Null \/ opponents = {} THEN 0
                    ELSE (10 - ps[CHOOSE i \in opponents :
                                    \A j \in opponents : i <= j].territoriesOwned) * 5
        isBorder == \E nId \in from.neighbors : terr[nId].owner # playerId
        ownedNeighbors == Cardinality({nId \in to.neighbors : terr[nId].owner = playerId})
    IN troopAdvantage * 10
       + (IF to.owner = Null THEN 20 ELSE 0)
       + weakness
       + Cardinality(to.neighbors) * 3
       - (IF isBorder /\ from.troops < 5 THEN 30 ELSE 0)
       + ownedNeighbors * 8

\* evaluateAttack that applies the modifier to every attack
evaluateAttackAlwaysDampened(from, to, terr, ps, playerId, difficulty) ==
    scoreBeforeModifier(from, to, terr, ps, playerId) * (10 - getAggressiveness(difficulty))

\* AIBot.evaluateAttack, in tenths of a point: the sum of the six factors is
\* an integer, and the modifier 1 - aggressiveness is a number of tenths.
evaluateAttack(from, to, terr, ps, playerId, difficulty) ==
    LET score == scoreBeforeModifier(from, to, terr, ps, playerId)
    IN IF from.troops - to.troops < 0
       THEN score * (10 - getAggressiveness(difficulty))
       ELSE score * 10

\* The candidates without the skip of territories that hold one troop
possibleAttacksFromWeak(terr, ps, playerId, difficulty) ==
    {[fromId |-> f, toId |-> t,
      score |-> evaluateAttack(terr[f], terr[t], terr, ps, playerId, difficulty)] :
        <<f, t>> \in {x \in Ids(terr) \X Ids(terr) :
                        /\ terr[x[1]].owner = playerId
                        /\ x[2] \in terr[x[1]].neighbors
                        /\ terr[x[2]].owner # playerId}}

\* Lines 29-52 of makeDecision: the candidate attacks.  They are generated
\* by ascending id of the origin and, for one origin, in the order of its
\* neighbor list, which calculateNeighbors fills by ascending id.
possibleAttacks(terr, ps, playerId, difficulty) ==
    {[fromId |-> f, toId |-> t,
      score |-> evaluateAttack(terr[f], terr[t], terr, ps, playerId, difficulty)] :
        <<f, t>> \in {x \in Ids(terr) \X Ids(terr) :
                        /\ terr[x[1]].owner = playerId
                        /\ terr[x[1]].troops > 1
                        /\ x[2] \in terr[x[1]].neighbors
                        /\ terr[x[2]].owner # playerId}}

\* Line 57: the position of a candidate after the (stable) sort by
\* descending score.
rankOf(c, candidates) ==
    Cardinality({d \in candidates :
        \/ d.score > c.score
        \/ /\ d.score = c.score
           /\ \/ d.fromId < c.fromId
              \/ d.fromId = c.fromId /\ d.toId < c.toId})

\* Every difficulty picking from the top half
pickedRanksTopHalf(difficulty, n) == 0 .. Max(1, n \div 2) - 1

\* Lines 60-72: the positions a difficulty picks from
pickedRanks(difficulty, n) ==
    IF difficulty = "easy" THEN 0 .. Max(1, n \div 2) - 1
    ELSE IF difficulty = "hard" THEN {0, IF n - 1 < 1 THEN n - 1 ELSE 1}
    ELSE 0 .. Max(1, (n * 3) \div 10) - 1

\* AIBot.makeDecision: the decisions it can return; none stands for null.
makeDecision(terr, ps, playerId, difficulty) ==
    LET candidates == possibleAttacks(terr, ps, playerId, difficulty)
    IN {c \in candidates :
            rankOf(c, candidates) \in pickedRanks(difficulty, Cardinality(candidates))}

\* The object makeDecision returns for a choice; NoChoice stands for null.
NoChoice == [found |-> FALSE]

\* A returned object with origin and target exchanged
decisionReversed(choice) ==
    IF choice = NoChoice THEN [kind |-> "decision", found |-> FALSE]
    ELSE [kind |-> "decision", found |-> TRUE, fromId |-> choice.toId,
          toId |-> choice.fromId, score |-> choice.score]

\* Lines 46-50 and 75: the object returned for a choice
decision(choice) ==
    IF choice = NoChoice THEN [kind |-> "decision", found |-> FALSE]
    ELSE [kind |-> "decision", found |-> TRUE, fromId |-> choice.fromId,
          toId |-> choice.toId, score |-> choice.score]

\* A makeDecision that carries its choice out on the origin
decideAndMove(g, playerId, difficulty, choice) ==
    [g EXCEPT
       !.territories = IF choice = NoChoice THEN @
                       ELSE [@ EXCEPT ![choice.fromId].troops = 1],
       !.lastCall = [op |-> "makeDecision", playerId |-> playerId,
                     difficulty |-> difficulty],
       !.result = decision(choice)]

\* AIBot.makeDecision on the engine g, returning choice: the engine it
\* leaves.  filter (line 29) and slice (lines 63, 70) build new arrays, the
\* candidates are new objects pushed on a new array (lines 34-51), and the
\* sort of line 57 is applied to that array: nothing of gameState is
\* assigned.
decide(g, playerId, difficulty, choice) ==
    [g EXCEPT
       !.lastCall = [op |-> "makeDecision", playerId |-> playerId,
                     difficulty |-> difficulty],
       !.result = decision(choice)]

\* Positions the bot is asked about.  Three players a, b and c were dealt in;
\* c has been eliminated.  The small map is three territories within the
\* neighbor threshold of each other; the large one is six seeds on a grid
\* of two rows and three columns, 100 apart, where every seed is within the
\* threshold of those next to it in its row, in its column and diagonally.
Difficulties == {"easy", "medium", "hard"}
BotTroops == {1, 4, 6, 8}
BotOwners == {"a", "b", Null}
GridMap ==
    [i \in 0 .. 5 |->
        {j \in 0 .. 5 :
            /\ j # i
            /\ (100 * ((i % 3) - (j % 3))) * (100 * ((i % 3) - (j % 3)))
               + (100 * ((i \div 3) - (j \div 3))) * (100 * ((i \div 3) - (j \div 3)))
               < NeighborThreshold * NeighborThreshold}]

position(map, owners, troops) ==
    [t \in DOMAIN map |-> [owner |-> owners[t], troops |-> troops[t], neighbors |-> map[t]]]

\* Every deal of the small map; on the large map a holds the middle of the
\* first row, the middle of the second row is a's or b's, and the corners
\* are b's or unowned.
BotPositions ==
    {position(RingMap(3), owners, troops) :
        owners \in [0 .. 2 -> BotOwners], troops \in [0 .. 2 -> BotTroops]}
    \cup
    {position(GridMap,
              [i \in 0 .. 5 |-> IF i = 1 THEN "a" ELSE IF i = 4 THEN mid ELSE corners[i]],
              [i \in 0 .. 5 |-> IF i = 1 THEN own ELSE IF i = 4 THEN 6 ELSE guards[i]]) :
        mid \in {"a", "b"}, corners \in [{0, 2, 3, 5} -> {"b", Null}],
        own \in {4, 6}, guards \in [{0, 2, 3, 5} -> {1, 8}]}

BotRoster(terr) ==
    updatePlayerStats(
        [idx \in 1 .. 3 |->
            [id |-> RosterIds[idx], color |-> getPlayerColor(idx - 1), isAlive |-> TRUE,
             territoriesOwned |-> 0, totalTroops |-> 0]],
        terr)

InitBot ==
    /\ territories \in BotPositions
    /\ players = BotRoster(territories)
    /\ currentTurn = 0
    /\ turnStartTime = DateNow(55)
    /\ gamePhase = checkWinCondition(players, "playing", Null)[1]
    /\ winner = checkWinCondition(players, "playing", Null)[2]
    /\ territoryCount = Cardinality(Ids(territories))
    /\ troopGenerationRate = 1
    /\ attacks = 0
    /\ lastCall = [op |-> "AIBot"]
    /\ result = NoResult
    /\ server = NoServer
    /\ sampler = NoSampler
    /\ snapshot = NoSnapshot
    /\ restored = NoRestored

\* makeDecision(gameState, playerId) of a bot of some difficulty, for a
\* player who holds territories (a) and for one who holds none (c), with
\* every outcome of its Math.random() draw.
CallMakeDecision ==
    /\ lastCall.op = "AIBot"
    /\ \E playerId \in {"a", "c"} : \E difficulty \in Difficulties :
          LET decisions == makeDecision(territories, players, playerId, difficulty)
          IN \E choice \in (IF decisions = {} THEN {NoChoice} ELSE decisions) :
                LET g == decide(Engine, playerId, difficulty, choice)
                IN /\ territories' = g.territories
                   /\ players' = g.players
                   /\ currentTurn' = g.currentTurn
                   /\ turnStartTime' = g.turnStartTime
                   /\ gamePhase' = g.gamePhase
                   /\ winner' = g.winner
                   /\ attacks' = g.attacks
                   /\ lastCall' = g.lastCall
                   /\ result' = g.result
    /\ UNCHANGED <<territoryCount, troopGenerationRate, server, sampler, snapshot, restored>>

\* evaluateAttack(from, to, gameState, playerId) of a bot of some
\* difficulty playing a, for two territories of the map.
CallEvaluateAttack ==
    /\ lastCall.op = "AIBot"
    /\ \E fromId \in Ids(territories) : \E toId \in Ids(territories) \ {fromId} :
       \E difficulty \in Difficulties :
          /\ lastCall' = [op |-> "evaluateAttack", fromId |-> fromId, toId |-> toId,
                          playerId |-> "a", difficulty |-> difficulty]
          /\ result' = [kind |-> "score",
                        score |-> evaluateAttack(territories[fromId], territories[toId],
                                                 territories, players, "a", difficulty)]
    /\ UNCHANGED <<territories, players, currentTurn, turnStartTime, gamePhase, winner, territoryCount,
                   troopGenerationRate, attacks, server, sampler, snapshot, restored>>

\* The proposal fed to the engine's attack entry point, as handleAITurn
\* does (game.js lines 677-686): processAttack(decision.fromId,
\* decision.toId, playerId) on the state the decision was made for.
CallProcessProposal ==
    /\ lastCall.op = "makeDecision"
    /\ result.found
    /\ \E r \in CampaignRolls :
          processAttack(result.fromId, result.toId, lastCall.playerId, r[1], r[2])
    /\ UNCHANGED <<server, sampler, snapshot, restored>>

NextBot ==
    \/ CallMakeDecision
    \/ CallEvaluateAttack
    \/ CallProcessProposal

SpecBot == InitBot /\ [][NextBot]_vars

\* ---------------------------------------------------------- the server
\* One lobby of the server (src/public/js/game.js, from line 523) and the room
\* its host starts, around the engine above.  A handler runs to completion
\* before the next event is taken (one JavaScript thread), so every handler
\* is one step.  The lobby is assembled and everyone is ready; its first
\* player is the host.  The room's map is scaled down from 60 territories to
\* a ring of 4.
RoomTerritoryCount == 4
RoomMaps == {RingMap(RoomTerritoryCount)}
RoomShuffles == {Interleaved(RoomTerritoryCount)}
ServerRolls == {<<119, 80>>, <<80, 119>>}

\* The 'startGame' requests the host's client sends for the lobby (the
\* handler does not look at lobby.gameStarted, so a second one is served).
StartGameRequests == {1, 2}

LobbyPlayer(idx, ai) == [id |-> RosterIds[idx], isAI |-> ai]
Lobbies ==
    {<<LobbyPlayer(1, FALSE), LobbyPlayer(2, FALSE)>>,
     <<LobbyPlayer(1, FALSE), LobbyPlayer(2, TRUE)>>}

\* room.aiPlayers: lobby.players.filter(p => p.isAI), by id
aiPlayers(sv) ==
    {sv.lobbyPlayers[i].id : i \in {j \in 1 .. Len(sv.lobbyPlayers) : sv.lobbyPlayers[j].isAI}}

\* The sockets that send requests: the human players and a stranger.
Sockets(sv) ==
    {sv.lobbyPlayers[i].id : i \in {j \in 1 .. Len(sv.lobbyPlayers) : ~sv.lobbyPlayers[j].isAI}}
        \cup {Stranger}

\* A pending timeout (the value setTimeout returns): what it will run, the
\* room and the turn it was armed in, and a number that tells apart timeouts
\* armed alike.
Handle(kind, room, turn, n) == [kind |-> kind, room |-> room, turn |-> turn, n |-> n]

setTimeout(sv, kind, turn) ==
    LET free == {n \in 0 .. Cardinality(sv.timers) :
                    Handle(kind, sv.room, turn, n) \notin sv.timers}
        n == CHOOSE m \in free : \A o \in free : m <= o
    IN [sv EXCEPT !.timers = @ \cup {Handle(kind, sv.room, turn, n)}]

\* startTurnTimer that cancels the pending timeout without arming a new one
startTurnTimerClearOnly(sv, turn) ==
    [sv EXCEPT !.timers = @ \ sv.turnTimer]

\* startTurnTimer (the room exists): clearTimeout(room.turnTimer), then
\* room.turnTimer = setTimeout(...)
startTurnTimer(sv, turn) ==
    LET cleared == [sv EXCEPT !.timers = @ \ sv.turnTimer]
        armed == setTimeout(cleared, "turn", turn)
    IN [armed EXCEPT !.turnTimer = armed.timers \ cleared.timers]

\* What a handler emits to the room or to the requesting socket: the
\* snapshot messages carry gameState.serialize(), of which the phase and the
\* winner are kept.
gameStateMessage(msg, phase, win) == [msg |-> msg, gamePhase |-> phase, winner |-> win]
gameEnded(win) == [msg |-> "gameEnded", winner |-> win]
attackResult == [msg |-> "attackResult"]
errorMessage(message) == [msg |-> "error", message |-> message]

\* handleTurnEnd of the room, sv being the server as the caller leaves it
handleTurnEnd(sv) ==
    /\ nextTurn
    /\ UNCHANGED <<sampler, snapshot, restored>>
    /\ IF gamePhase = "ended"
       THEN server' = [sv EXCEPT
                         !.timers = @ \ sv.turnTimer,
                         !.emitted = {gameStateMessage("gameStateUpdate", gamePhase, winner),
                                      gameEnded(winner)}]
       ELSE \E armed \in {startTurnTimer(
                              [sv EXCEPT !.emitted = {gameStateMessage("gameStateUpdate",
                                                                       gamePhase, winner)}],
                              currentTurn')} :
               server' = IF getCurrentPlayer(players', currentTurn').id \in aiPlayers(sv)
                         THEN setTimeout(armed, "aiStart", currentTurn')
                         ELSE armed

\* The for loop of handleAITurn: the engines that k more iterations can
\* leave.  A decision is executed when its score is positive.
RECURSIVE aiActions(_, _, _)
aiActions(g, playerId, k) ==
    IF k = 0 THEN {g}
    ELSE LET decisions == makeDecision(g.territories, g.players, playerId, "medium")
         IN IF decisions = {} THEN aiActions(g, playerId, k - 1)
            ELSE UNION {
                    IF d.score > 0
                    THEN UNION {aiActions(resolveAttack(g, d.fromId, d.toId, playerId,
                                                        r[1], r[2]),
                                          playerId, k - 1) : r \in ServerRolls}
                    ELSE aiActions(g, playerId, k - 1) : d \in decisions}

\* handleAITurn of the room
handleAITurn(sv) ==
    LET currentPlayer == getCurrentPlayer(players, currentTurn)
    IN IF currentPlayer.id \notin aiPlayers(sv)
       THEN /\ server' = [sv EXCEPT !.emitted = {}]
            /\ UNCHANGED <<territories, players, currentTurn, turnStartTime, gamePhase, winner,
                           territoryCount, troopGenerationRate, attacks, lastCall, result,
                           sampler, snapshot, restored>>
       ELSE /\ UNCHANGED <<currentTurn, turnStartTime, territoryCount, troopGenerationRate,
                           sampler, snapshot, restored>>
            /\ \E actionsPerTurn \in 1 .. 3 :
               \E g \in aiActions(Engine, currentPlayer.id, actionsPerTurn) :
                  /\ territories' = g.territories
                  /\ players' = g.players
                  /\ gamePhase' = g.gamePhase
                  /\ winner' = g.winner
                  /\ attacks' = g.attacks
                  /\ lastCall' = g.lastCall
                  /\ result' = g.result
                  /\ server' = setTimeout(
                        [sv EXCEPT !.emitted =
                            {gameStateMessage("gameStateUpdate", g.gamePhase, g.winner)}
                            \cup (IF g.attacks # attacks THEN {attackResult} ELSE {})],
                        "aiEnd", currentTurn)

Event(kind, timer) == [kind |-> kind, timer |-> timer]

\* A request of a socket: the handler that takes it, and whether socket.id
\* is the id of the room's current player when the handler starts.
Request(kind, socket) ==
    [kind |-> kind, timer |-> {},
     fromCurrentPlayer |-> socket = getCurrentPlayer(players, currentTurn).id]

\* The test of the sender left out
yourTurnAnyone(ps, turn, socket) == TRUE

\* Lines 839-842 and 870-873: currentPlayer.id === socket.id
yourTurn(ps, turn, socket) == getCurrentPlayer(ps, turn).id = socket

InitServer ==
    /\ territories = <<>>
    /\ players = <<>>
    /\ currentTurn = 0
    /\ turnStartTime = DateNow(19)
    /\ gamePhase = "lobby"
    /\ winner = Null
    /\ territoryCount = RoomTerritoryCount
    /\ troopGenerationRate = 1
    /\ attacks = 0
    /\ lastCall = [op |-> "constructor"]
    /\ result = NoResult
    /\ \E lobby \in Lobbies : \E requests \in StartGameRequests :
          server = [NoServer EXCEPT !.lobbyPlayers = lobby, !.startRequests = requests]
    /\ sampler = NoSampler
    /\ snapshot = NoSnapshot
    /\ restored = NoRestored

\* socket.on('startGame') sent by the host, then startGame(lobbyId): a new
\* GameState, initializeGame, a new room in gameRooms and its first timer.
SocketStartGame ==
    /\ server.startRequests > 0
    /\ Len(server.lobbyPlayers) >= 2
    /\ \E map \in RoomMaps :
       \E shuffled \in RoomShuffles :
          initializeGameFields(Len(server.lobbyPlayers), map, shuffled)
    /\ winner' = Null
    /\ server' = startTurnTimer(
                    [server EXCEPT !.room = @ + 1, !.gameStarted = TRUE,
                                   !.startRequests = @ - 1,
                                   !.turnTimer = {},
                                   !.event = Event("startGame", {}),
                                   !.emitted = {gameStateMessage("gameStarted", "playing",
                                                                 Null)}], 0)
    /\ UNCHANGED <<territoryCount, troopGenerationRate, sampler, snapshot, restored>>

\* The callback of a turn timeout runs.  Timeouts run in the order of their
\* deadlines: the turn timeout (turnTimeLimit, 45000 ms) runs after the AI
\* callbacks armed in its turn (at most 2000 ms, and 1500 ms after that).
TurnTimeout ==
    /\ currentTurn < MaxServerTurn
    /\ \E h \in server.timers :
          /\ h.kind = "turn"
          /\ ~\E g \in server.timers :
                g.kind # "turn" /\ g.room = h.room /\ g.turn = h.turn
          /\ handleTurnEnd([server EXCEPT !.timers = @ \ {h},
                                          !.event = Event("turnTimeout", {h})])

\* socket.on('endTurn') from the current player
SocketEndTurn ==
    /\ server.room > 0
    /\ currentTurn < MaxServerTurn
    /\ \E socket \in Sockets(server) :
          /\ yourTurn(players, currentTurn, socket)
          /\ handleTurnEnd([server EXCEPT !.event = Request("endTurn", socket)])

\* socket.on('endTurn') or socket.on('attack') from anyone else: 'Not your
\* turn' is emitted to the socket.
SocketNotYourTurn ==
    /\ server.room > 0
    /\ \E socket \in Sockets(server) :
          /\ ~yourTurn(players, currentTurn, socket)
          /\ server' = [server EXCEPT !.event = Request("notYourTurn", socket),
                                      !.emitted = {errorMessage("Not your turn")}]
    /\ UNCHANGED <<territories, players, currentTurn, turnStartTime, gamePhase, winner,
                   territoryCount, troopGenerationRate, attacks, lastCall, result,
                   sampler, snapshot, restored>>

\* socket.on('attack') from the current player, the engine accepting it
SocketAttack ==
    /\ server.room > 0
    /\ attacks < MaxServerAttacks
    /\ \E x \in AttackInputs :
          /\ x[3] \in Sockets(server)
          /\ yourTurn(players, currentTurn, x[3])
          /\ validateAttack(territories, x[1], x[2], x[3])
          /\ \E r \in ServerRolls : processAttack(x[1], x[2], x[3], r[1], r[2])
          /\ server' = [server EXCEPT
                          !.event = Request("attack", x[3]),
                          !.emitted = {attackResult,
                                       gameStateMessage("gameStateUpdate", gamePhase',
                                                        winner')}]
    /\ UNCHANGED <<sampler, snapshot, restored>>

\* The callback that starts an AI turn runs.
AITurnStarts ==
    \E h \in server.timers :
        /\ h.kind = "aiStart"
        /\ handleAITurn([server EXCEPT !.timers = @ \ {h},
                                       !.event = Event("aiTurn", {h})])

\* The callback that ends an AI turn runs.
AITurnEnds ==
    /\ currentTurn < MaxServerTurn
    /\ \E h \in server.timers :
          /\ h.kind = "aiEnd"
          /\ handleTurnEnd([server EXCEPT !.timers = @ \ {h},
                                          !.event = Event("aiEnd", {h})])

NextServer ==
    \/ SocketStartGame
    \/ TurnTimeout
    \/ SocketEndTurn
    \/ SocketNotYourTurn
    \/ SocketAttack
    \/ AITurnStarts
    \/ AITurnEnds

SpecServer == InitServer /\ [][NextServer]_vars

\* Timeouts that are pending eventually run.  handleAITurn can always run
\* while its timeout is pending, so its weak fairness is that no such timeout
\* stays pending for ever.
AIStartPending == \E h \in server.timers : h.kind = "aiStart"

SpecServerFair ==
    /\ SpecServer
    /\ WF_vars(TurnTimeout \/ AITurnEnds)
    /\ []<>~AIStartPending

\* ------------------------------------------- the engine of a room
\* The calls a room's engine receives from the handlers above, for a lobby of
\* three on six territories in a ring (every player is dealt one territory,
\* as every player is dealt at least three of the server's 60):
\* initializeGame once (startGame), processAttack with the id of the current
\* player only (the 'attack' handler after its test of the sender, and
\* handleAITurn, which passes currentPlayer.id), and nextTurn at any moment
\* (handleTurnEnd, called for 'endTurn' and by every timeout, whatever the
\* phase).
InitRoomEngine ==
    /\ server = NoServer
    /\ sampler = NoSampler
    /\ snapshot = NoSnapshot
    /\ restored = NoRestored
    /\ territories = <<>>
    /\ players = <<>>
    /\ currentTurn = 0
    /\ turnStartTime = DateNow(19)
    /\ gamePhase = "lobby"
    /\ winner = Null
    /\ territoryCount = 6
    /\ troopGenerationRate = DefaultTroopGenerationRate
    /\ attacks = 0
    /\ lastCall = [op |-> "constructor"]
    /\ result = NoResult

RoomInitializeGame ==
    /\ gamePhase = "lobby"
    /\ \E shuffled \in Shuffles(territoryCount) :
          initializeGame(3, RingMap(territoryCount), shuffled)
    /\ UNCHANGED <<server, sampler, snapshot, restored>>

RoomProcessAttack ==
    /\ gamePhase # "lobby"
    /\ attacks < CampaignAttacks
    /\ \E x \in AttackInputs :
          /\ yourTurn(players, currentTurn, x[3])
          /\ validateAttack(territories, x[1], x[2], x[3])
          /\ \E r \in CampaignRolls : processAttack(x[1], x[2], x[3], r[1], r[2])
    /\ UNCHANGED <<server, sampler, snapshot, restored>>

RoomNextTurn ==
    /\ gamePhase # "lobby"
    /\ currentTurn < CampaignTurns
    /\ nextTurn
    /\ UNCHANGED <<server, sampler, snapshot, restored>>

NextRoomEngine ==
    \/ RoomInitializeGame
    \/ RoomProcessAttack
    \/ RoomNextTurn

SpecRoomEngine == InitRoomEngine /\ [][NextRoomEngine]_vars

\* ------------------------------------------------- after the end
\* A game of two on four territories in a ring, played past its end: the
\* engine takes processAttack and nextTurn calls in every phase, from every
\* caller (a player, an eliminated player, null for the unowned territories,
\* an identity outside the roster).
InitEndgame ==
    /\ server = NoServer
    /\ sampler = NoSampler
    /\ snapshot = NoSnapshot
    /\ restored = NoRestored
    /\ territories = <<>>
    /\ players = <<>>
    /\ currentTurn = 0
    /\ turnStartTime = DateNow(19)
    /\ gamePhase = "lobby"
    /\ winner = Null
    /\ territoryCount = 4
    /\ troopGenerationRate = DefaultTroopGenerationRate
    /\ attacks = 0
    /\ lastCall = [op |-> "constructor"]
    /\ result = NoResult

EndgameInitializeGame ==
    /\ gamePhase = "lobby"
    /\ initializeGame(2, RingMap(territoryCount), IdOrder(territoryCount))
    /\ UNCHANGED <<server, sampler, snapshot, restored>>

EndgameProcessAttack ==
    /\ gamePhase # "lobby"
    /\ attacks < EndgameAttacks
    /\ \E x \in AttackInputs :
          /\ validateAttack(territories, x[1], x[2], x[3])
          /\ \E r \in CampaignRolls : processAttack(x[1], x[2], x[3], r[1], r[2])
    /\ UNCHANGED <<server, sampler, snapshot, restored>>

EndgameProcessAttackRejected ==
    /\ gamePhase # "lobby"
    /\ \E x \in RejectedCalls : processAttack(x[1], x[2], x[3], NoRoll, NoRoll)
    /\ UNCHANGED <<server, sampler, snapshot, restored>>

EndgameNextTurn ==
    /\ gamePhase # "lobby"
    /\ currentTurn < EndgameTurns
    /\ nextTurn
    /\ UNCHANGED <<server, sampler, snapshot, restored>>

NextEndgame ==
    \/ EndgameInitializeGame
    \/ EndgameProcessAttack
    \/ EndgameProcessAttackRejected
    \/ EndgameNextTurn

SpecEndgame == InitEndgame /\ [][NextEndgame]_vars

\* ------------------------------------------------------------ the deal
\* initializeGame alone, on maps of several sizes up to the 60 territories
\* the server configures, for every roster a lobby can hold (and the empty
\* one).  A game may be initialized again.
DealTerritoryCounts == {2, 3, 5, 8, 16, ServerTerritoryCount}

InitDeal ==
    /\ server = NoServer
    /\ sampler = NoSampler
    /\ snapshot = NoSnapshot
    /\ restored = NoRestored
    /\ territories = <<>>
    /\ players = <<>>
    /\ currentTurn = 0
    /\ turnStartTime = DateNow(19)
    /\ gamePhase = "lobby"
    /\ winner = Null
    /\ territoryCount \in DealTerritoryCounts
    /\ troopGenerationRate = 1
    /\ attacks = 0
    /\ lastCall = [op |-> "constructor"]
    /\ result = NoResult

DealInitializeGame ==
    /\ \E count \in 0 .. LobbyMaxPlayers :
       \E map \in GeneratedMaps(territoryCount) :
       \E shuffled \in Shuffles(territoryCount) :
          initializeGame(count, map, shuffled)
    /\ UNCHANGED <<server, sampler, snapshot, restored>>

NextDeal == DealInitializeGame

SpecDeal == InitDeal /\ [][NextDeal]_vars

\* ------------------------------------------------------- map generation
\* MapGenerator.generateMap on a map of 400 x 200 (config.mapWidth,
\* config.mapHeight).  Math.random() * width and Math.random() * height are
\* drawn from the centres of the 100 x 100 squares of the map, so that two
\* seeds are 100, 141.4, 200 or more apart: on both sides of the neighbor
\* threshold of 150.  Distances are compared through their squares.
MapWidth == 400
MapHeight == 200
SeedPositions == {<<x, y>> : x \in {50, 150, 250, 350}, y \in {50, 150}}

\* MapGenerator.distance, squared
distanceSquared(p1, p2) ==
    (p1[1] - p2[1]) * (p1[1] - p2[1]) + (p1[2] - p2[2]) * (p1[2] - p2[2])

\* Line 262: dist < minDistance, with minDistance = sqrt(w * h / count) * 0.7
tooClose(p1, p2, count, width, height) ==
    100 * count * distanceSquared(p1, p2) < 49 * width * height

\* MapGenerator.generatePoints: the point lists it can return.  A drawn point
\* is pushed when it is the first one or when no placed point is too close.
generatePoints(count, width, height) ==
    {pts \in [1 .. count -> SeedPositions] :
        \A i \in 1 .. count : \A j \in 1 .. count :
            i < j => ~tooClose(pts[j], pts[i], count, width, height)}

\* MapGenerator.createTerritories: territory i is built from point i (the
\* polygon is left out); sequence position k holds array index k - 1.
createTerritories(points) ==
    [k \in 1 .. Len(points) |->
        [id |-> k - 1, center |-> points[k], owner |-> Null,
         troops |-> InitialTroops, neighbors |-> {}]]

\* Territory.addNeighbor on the territory at array index `at`
addNeighbor(terrs, at, territoryId) ==
    [terrs EXCEPT ![at + 1].neighbors = @ \cup {territoryId}]

\* Lines 416-432: every pair of territories closer than the threshold
linkClosePairs(terrs) ==
    [k \in 1 .. Len(terrs) |->
        [terrs[k] EXCEPT !.neighbors =
            {terrs[m].id : m \in {n \in 1 .. Len(terrs) :
                n # k /\ distanceSquared(terrs[k].center, terrs[n].center)
                            < NeighborThreshold * NeighborThreshold}}]]

\* Line 443: the territories the search for the closest one goes through
otherTerritories(terrs, k) == {m \in 1 .. Len(terrs) : terrs[m].id # terrs[k].id}

\* Lines 438-449: the id of the closest other territory, the first one in
\* array order among the closest (closestId stays null when there is no
\* other territory).
closestOther(terrs, k) ==
    LET others == otherTerritories(terrs, k)
        d(m) == distanceSquared(terrs[k].center, terrs[m].center)
        nearest == {m \in others : \A n \in others : d(m) <= d(n)}
    IN terrs[CHOOSE m \in nearest : \A n \in nearest : m <= n].id

\* The fallback recording the edge on the isolated territory only
ensureNeighborOneWay(terrs, k) ==
    IF terrs[k].neighbors # {} \/ otherTerritories(terrs, k) = {} THEN terrs
    ELSE [terrs EXCEPT ![k].neighbors = @ \cup {closestOther(terrs, k)}]

\* Lines 436-455, one iteration: a territory without neighbor is linked, both
\* ways, to the closest other territory.
ensureNeighbor(terrs, k) ==
    IF terrs[k].neighbors # {} \/ otherTerritories(terrs, k) = {} THEN terrs
    ELSE LET closestId == closestOther(terrs, k)
         IN addNeighbor(addNeighbor(terrs, k - 1, closestId), closestId, terrs[k].id)

RECURSIVE ensureNeighbors(_, _)
ensureNeighbors(terrs, k) ==
    IF k > Len(terrs) THEN terrs
    ELSE ensureNeighbors(ensureNeighbor(terrs, k), k + 1)

\* calculateNeighbors without its second loop
calculateNeighborsThresholdOnly(terrs) == linkClosePairs(terrs)

\* MapGenerator.calculateNeighbors
calculateNeighbors(terrs) == ensureNeighbors(linkClosePairs(terrs), 1)

\* MapGenerator.generateMap for one outcome of generatePoints
generateMap(points) == calculateNeighbors(createTerritories(points))

InitMap ==
    /\ server = NoServer
    /\ sampler = NoSampler
    /\ snapshot = NoSnapshot
    /\ restored = NoRestored
    /\ territories = <<>>
    /\ players = <<>>
    /\ currentTurn = 0
    /\ turnStartTime = DateNow(19)
    /\ gamePhase = "lobby"
    /\ winner = Null
    /\ territoryCount \in 1 .. MaxSeeds
    /\ troopGenerationRate = 1
    /\ attacks = 0
    /\ lastCall = [op |-> "constructor"]
    /\ result = NoResult

\* generateMap is a function of the points drawn: it is applied once.
CallGenerateMap ==
    /\ lastCall.op = "constructor"
    /\ \E points \in generatePoints(territoryCount, MapWidth, MapHeight) :
        /\ lastCall' = [op |-> "generateMap", count |-> territoryCount]
        /\ result' = [kind |-> "map", territories |-> generateMap(points)]
        /\ UNCHANGED <<territories, players, currentTurn, turnStartTime, gamePhase, winner,
                       territoryCount, troopGenerationRate, attacks, server,
                       sampler, snapshot, restored>>

NextMap == CallGenerateMap

SpecMap == InitMap /\ [][NextMap]_vars

\* ------------------------------------------------------------ snapshots
\* serialize and deserialize.  A serialized territory is a new object holding
\* id, owner, troops and the neighbors (vertices and center are left out of
\* the model); the serialized game holds these, currentTurn, gamePhase and
\* winner, and this.players itself: the array and the player objects of the
\* engine, not copies (sharesPlayers).  The configuration (territoryCount,
\* troopGenerationRate) is not part of it.
serializeTerritory(id, t) ==
    [id |-> id, owner |-> t.owner, troops |-> t.troops, neighbors |-> t.neighbors]

\* Territory.deserialize that leaves the troops of the constructor
deserializeTerritoryNoTroops(data) ==
    [owner |-> data.owner, troops |-> InitialTroops, neighbors |-> data.neighbors]

\* Territory.deserialize: new Territory(...), then owner, troops and
\* neighbors are assigned from the data
deserializeTerritory(data) ==
    [[owner |-> Null, troops |-> InitialTroops, neighbors |-> {}] EXCEPT
        !.owner = data.owner, !.troops = data.troops, !.neighbors = data.neighbors]

\* GameState.serialize of the engine g
serialize(g) ==
    [taken |-> TRUE,
     territories |-> [id \in DOMAIN g.territories |->
                         serializeTerritory(id, g.territories[id])],
     players |-> g.players,
     sharesPlayers |-> TRUE,
     currentTurn |-> g.currentTurn,
     turnStartTime |-> g.turnStartTime,
     gamePhase |-> g.gamePhase,
     winner |-> g.winner]

\* GameState.deserialize: new GameState() with its defaults, then the fields
\* of the data are assigned.  The game it builds lives where the data was
\* received (the client, lines 69 and 74 of game.js).
deserialize(data) ==
    [built |-> TRUE,
     g |-> [territories |-> [id \in DOMAIN data.territories |->
                                deserializeTerritory(data.territories[id])],
            players |-> data.players,
            currentTurn |-> data.currentTurn,
            turnStartTime |-> data.turnStartTime,
            gamePhase |-> data.gamePhase,
            winner |-> data.winner,
            attacks |-> 0,
            lastCall |-> [op |-> "deserialize"],
            result |-> NoResult],
     territoryCount |-> DefaultTerritoryCount,
     troopGenerationRate |-> DefaultTroopGenerationRate]

\* What the caller of serialize holds after the engine has written the
\* players ps: the player objects the snapshot shares with the engine are
\* the ones updatePlayerStats writes.
snapshotAfter(snap, ps) ==
    IF snap.taken /\ snap.sharesPlayers THEN [snap EXCEPT !.players = ps] ELSE snap

\* initializeGame gives the engine a new players array: a snapshot taken
\* before keeps the old one, which nothing writes any more.
snapshotAfterInitializeGame(snap) ==
    IF snap.taken THEN [snap EXCEPT !.sharesPlayers = FALSE] ELSE snap

\* Two players on four territories; the generation rate is the default or 2.
SnapshotRates == {DefaultTroopGenerationRate, 2}

InitSnapshot ==
    /\ territories = <<>>
    /\ players = <<>>
    /\ currentTurn = 0
    /\ turnStartTime = DateNow(19)
    /\ gamePhase = "lobby"
    /\ winner = Null
    /\ territoryCount = 4
    /\ troopGenerationRate \in SnapshotRates
    /\ attacks = 0
    /\ lastCall = [op |-> "constructor"]
    /\ result = NoResult
    /\ server = NoServer
    /\ sampler = NoSampler
    /\ snapshot = NoSnapshot
    /\ restored = NoRestored

\* initializeGame, called once; a game built by deserialize before it is
\* dropped.
SnapshotInitializeGame ==
    /\ gamePhase = "lobby"
    /\ \E shuffled \in Shuffles(territoryCount) :
          initializeGame(2, RingMap(territoryCount), shuffled)
    /\ snapshot' = snapshotAfterInitializeGame(snapshot)
    /\ restored' = NoRestored
    /\ UNCHANGED <<server, sampler>>

\* processAttack on the engine and, with the same draws, on the game built by
\* deserialize
SnapshotProcessAttack ==
    /\ attacks < MaxAttacks
    /\ \E x \in AttackInputs : \E r \in CampaignRolls :
          /\ validateAttack(territories, x[1], x[2], x[3])
          /\ processAttack(x[1], x[2], x[3], r[1], r[2])
          /\ restored' = IF restored.built
                         THEN [restored EXCEPT
                                 !.g = resolveAttack(@, x[1], x[2], x[3], r[1], r[2])]
                         ELSE restored
    /\ snapshot' = snapshotAfter(snapshot, players')
    /\ UNCHANGED <<server, sampler>>

\* nextTurn on the engine and on the game built by deserialize
SnapshotNextTurn ==
    /\ currentTurn < MaxTurn
    /\ nextTurn
    /\ restored' = IF restored.built
                   THEN [restored EXCEPT
                           !.g = advanceTurn(@, restored.troopGenerationRate)]
                   ELSE restored
    /\ snapshot' = snapshotAfter(snapshot, players')
    /\ UNCHANGED <<server, sampler>>

\* serialize is called and its caller keeps the object
CallSerialize ==
    /\ ~snapshot.taken
    /\ snapshot' = serialize(Engine)
    /\ lastCall' = [op |-> "serialize"]
    /\ UNCHANGED <<territories, players, currentTurn, turnStartTime, gamePhase, winner, territoryCount,
                   troopGenerationRate, attacks, result, server, sampler, restored>>

\* deserialize(serialize(state)): the data crosses the network
CallRoundTrip ==
    /\ ~restored.built
    /\ restored' = deserialize(serialize(Engine))
    /\ lastCall' = [op |-> "roundTrip"]
    /\ UNCHANGED <<territories, players, currentTurn, turnStartTime, gamePhase, winner, territoryCount,
                   troopGenerationRate, attacks, result, server, sampler, snapshot>>

NextSnapshot ==
    \/ SnapshotInitializeGame
    \/ SnapshotProcessAttack
    \/ SnapshotNextTurn
    \/ CallSerialize

SpecSnapshot == InitSnapshot /\ [][NextSnapshot]_vars

NextRoundTrip ==
    \/ SnapshotInitializeGame
    \/ SnapshotProcessAttack
    \/ SnapshotNextTurn
    \/ CallRoundTrip

SpecRoundTrip == InitSnapshot /\ [][NextRoundTrip]_vars

\* ------------------------------------------------------- seed placement
\* MapGenerator.generatePoints step by step: one iteration of its while loop
\* is one step.  sampler.rejected counts the draws rejected since the last
\* point was pushed (the code keeps no such counter).
InitSeeds ==
    /\ territories = <<>>
    /\ players = <<>>
    /\ currentTurn = 0
    /\ turnStartTime = DateNow(19)
    /\ gamePhase = "lobby"
    /\ winner = Null
    /\ territoryCount \in 1 .. MaxSeeds
    /\ troopGenerationRate = 1
    /\ attacks = 0
    /\ lastCall = [op |-> "constructor"]
    /\ result = NoResult
    /\ server = NoServer
    /\ sampler = NoSampler
    /\ snapshot = NoSnapshot
    /\ restored = NoRestored

\* Lines 251-253: the locals before the loop
GeneratePointsBegins ==
    /\ sampler.state = "idle"
    /\ sampler' = [state |-> "running", count |-> territoryCount, width |-> MapWidth,
                   height |-> MapHeight, points |-> <<>>, rejected |-> 0]
    /\ lastCall' = [op |-> "generatePoints", count |-> territoryCount]
    /\ UNCHANGED <<territories, players, currentTurn, turnStartTime, gamePhase, winner, territoryCount,
                   troopGenerationRate, attacks, result, server, snapshot, restored>>

\* Lines 262-271: no placed point is closer to the drawn one than minDistance
validPoint(point, points, count, width, height) ==
    \A i \in 1 .. Len(points) : ~tooClose(point, points[i], count, width, height)

\* Lines 255-276, an iteration that pushes the drawn point
PointAccepted ==
    /\ sampler.state = "running"
    /\ Len(sampler.points) < sampler.count
    /\ \E point \in SeedPositions :
          /\ \/ validPoint(point, sampler.points, sampler.count, sampler.width,
                           sampler.height)
             \/ Len(sampler.points) = 0
          /\ sampler' = [sampler EXCEPT !.points = Append(@, point), !.rejected = 0]
    /\ UNCHANGED <<territories, players, currentTurn, turnStartTime, gamePhase, winner, territoryCount,
                   troopGenerationRate, attacks, lastCall, result, server, snapshot,
                   restored>>

\* Lines 255-276, an iteration that drops the drawn point
PointRejected ==
    /\ sampler.state = "running"
    /\ Len(sampler.points) < sampler.count
    /\ sampler.rejected < MaxRejected
    /\ \E point \in SeedPositions :
          /\ ~validPoint(point, sampler.points, sampler.count, sampler.width,
                         sampler.height)
          /\ Len(sampler.points) # 0
    /\ sampler' = [sampler EXCEPT !.rejected = @ + 1]
    /\ UNCHANGED <<territories, players, currentTurn, turnStartTime, gamePhase, winner, territoryCount,
                   troopGenerationRate, attacks, lastCall, result, server, snapshot,
                   restored>>

\* Line 278: the loop is left and the points are returned
GeneratePointsReturns ==
    /\ sampler.state = "running"
    /\ Len(sampler.points) = sampler.count
    /\ sampler' = [sampler EXCEPT !.state = "returned"]
    /\ result' = [kind |-> "points", points |-> sampler.points]
    /\ UNCHANGED <<territories, players, currentTurn, turnStartTime, gamePhase, winner, territoryCount,
                   troopGenerationRate, attacks, lastCall, server, snapshot, restored>>

NextSeeds ==
    \/ GeneratePointsBegins
    \/ PointAccepted
    \/ PointRejected
    \/ GeneratePointsReturns

SpecSeeds == InitSeeds /\ [][NextSeeds]_vars

\* ------------------------------------------------------------- polygons
\* MapGenerator.createTerritories with the polygons: the grid of cells of
\* gridSize pixels, extractBoundary and convexHull.  Points are pairs <<x, y>>.
\* The maps are small (a few cells each way, or one row of cells) and the
\* seeds are drawn from their corners, their centre and the middles of their
\* sides, as far apart as generatePoints leaves them.
PolygonMaps == {<<10, 10>>, <<20, 20>>, <<30, 30>>, <<50, 30>>, <<100, 10>>, <<200, 10>>}
PolygonCounts == {1, 2}
PolygonSeeds(width, height) ==
    {<<x, y>> : x \in {0, width \div 2, width - 1}, y \in {0, height \div 2, height - 1}}
PolygonPoints(count, width, height) ==
    {pts \in [1 .. count -> PolygonSeeds(width, height)] :
        \A i \in 1 .. count : \A j \in 1 .. count :
            i < j => ~tooClose(pts[j], pts[i], count, width, height)}

\* Math.ceil(a / b) for positive integers
ceilDiv(a, b) == (a + b - 1) \div b

\* Lines 299-311: the index of the point closest to the centre of a cell,
\* the first one among the closest
closestIdx(points, cellX, cellY) ==
    LET d(i) == distanceSquared(<<cellX, cellY>>, points[i])
    IN (CHOOSE i \in 1 .. Len(points) :
            \A j \in 1 .. Len(points) : d(i) < d(j) \/ (d(i) = d(j) /\ i <= j)) - 1

\* Lines 287-316: grid[y][x]
voronoiGrid(points, width, height) ==
    [y \in 0 .. ceilDiv(height, gridSize) - 1 |->
        [x \in 0 .. ceilDiv(width, gridSize) - 1 |->
            closestIdx(points, x * gridSize + gridSize \div 2,
                               y * gridSize + gridSize \div 2)]]

\* Lines 337-345: the cells of the territory that are edge cells
edgeCells(grid, territoryId, cols, rows) ==
    {c \in (0 .. cols - 1) \X (0 .. rows - 1) :
        LET x == c[1]
            y == c[2]
        IN /\ grid[y][x] = territoryId
           /\ \/ x = 0 \/ x = cols - 1 \/ y = 0 \/ y = rows - 1
              \/ grid[y - 1][x] # territoryId
              \/ grid[y + 1][x] # territoryId
              \/ grid[y][x - 1] # territoryId
              \/ grid[y][x + 1] # territoryId}

\* Lines 335-353: the vertices pushed, in the order of the two for loops
boundaryVertices(grid, territoryId, cols, rows) ==
    LET E == edgeCells(grid, territoryId, cols, rows)
        before(d, c) == d[2] < c[2] \/ (d[2] = c[2] /\ d[1] < c[1])
        at(k) == CHOOSE c \in E : Cardinality({d \in E : before(d, c)}) = k - 1
    IN [k \in 1 .. Cardinality(E) |-> <<at(k)[1] * gridSize, at(k)[2] * gridSize>>]

\* MapGenerator.crossProduct
crossProduct(o, a, b) ==
    (a[1] - o[1]) * (b[2] - o[2]) - (a[2] - o[2]) * (b[1] - o[1])

\* Lines 374-380: the index of the bottom-most point, the left-most of them
startIndex(points) ==
    CHOOSE i \in 1 .. Len(points) :
        \A j \in 1 .. Len(points) :
            j # i => \/ points[i][2] < points[j][2]
                     \/ (points[i][2] = points[j][2] /\ points[i][1] < points[j][1])
                     \/ (points[i] = points[j] /\ i < j)

\* Lines 385-389: the other points sorted by polar angle around the start
\* point.  No point is below the start point, and none is level with it on
\* its left, so the angles are in [0, pi) and atan2(a) < atan2(b) is
\* crossProduct(start, a, b) > 0; points of equal angle keep their order
\* (Array.prototype.sort is stable).
sortByAngle(points, start) ==
    LET others == SelectSeq([i \in 1 .. Len(points) |-> <<i, points[i]>>],
                            LAMBDA e : e[1] # start)
        rest == [i \in 1 .. Len(others) |-> others[i][2]]
        cross(j, i) == crossProduct(points[start], rest[j], rest[i])
        before(j, i) == cross(j, i) > 0 \/ (cross(j, i) = 0 /\ j < i)
        at(k) == CHOOSE i \in 1 .. Len(rest) :
                    Cardinality({j \in 1 .. Len(rest) : before(j, i)}) = k - 1
    IN [k \in 1 .. Len(rest) |-> rest[at(k)]]

\* Lines 395-398: the while loop that pops the hull
RECURSIVE popHull(_, _)
popHull(hull, point) ==
    IF Len(hull) > 1 /\ crossProduct(hull[Len(hull) - 1], hull[Len(hull)], point) <= 0
    THEN popHull(SubSeq(hull, 1, Len(hull) - 1), point)
    ELSE hull

\* Lines 394-400: the for loop over sorted[i], i being the next index
RECURSIVE buildHull(_, _, _)
buildHull(hull, sorted, i) ==
    IF i > Len(sorted) THEN hull
    ELSE buildHull(Append(popHull(hull, sorted[i]), sorted[i]), sorted, i + 1)

\* MapGenerator.convexHull
convexHull(points) ==
    IF Len(points) < 3 THEN points
    ELSE LET start == startIndex(points)
             sorted == sortByAngle(points, start)
         IN buildHull(<<points[start], sorted[1]>>, sorted, 2)

\* MapGenerator.extractBoundary
extractBoundary(grid, territoryId, cols, rows) ==
    LET vertices == boundaryVertices(grid, territoryId, cols, rows)
    IN IF Len(vertices) > 8 THEN convexHull(vertices)
       ELSE IF Len(vertices) > 0 THEN vertices
       ELSE <<(<<0, 0>>), (<<gridSize, 0>>), (<<gridSize, gridSize>>), (<<0, gridSize>>)>>

\* Lines 319-323: the polygon of every territory, and the number of edge
\* cells it was made from
createPolygons(points, width, height) ==
    LET cols == ceilDiv(width, gridSize)
        rows == ceilDiv(height, gridSize)
        grid == voronoiGrid(points, width, height)
    IN [k \in 1 .. Len(points) |->
          [id |-> k - 1,
           vertices |-> extractBoundary(grid, k - 1, cols, rows),
           edgeCells |-> Cardinality(edgeCells(grid, k - 1, cols, rows))]]

InitPolygons ==
    /\ territories = <<>>
    /\ players = <<>>
    /\ currentTurn = 0
    /\ turnStartTime = DateNow(19)
    /\ gamePhase = "lobby"
    /\ winner = Null
    /\ territoryCount \in PolygonCounts
    /\ troopGenerationRate = 1
    /\ attacks = 0
    /\ lastCall = [op |-> "constructor"]
    /\ result = NoResult
    /\ server = NoServer
    /\ sampler = NoSampler
    /\ snapshot = NoSnapshot
    /\ restored = NoRestored

\* createTerritories is a function of the points and the size of the map: it
\* is applied once.
CallCreateTerritories ==
    /\ lastCall.op = "constructor"
    /\ \E size \in PolygonMaps :
       \E points \in PolygonPoints(territoryCount, size[1], size[2]) :
          /\ lastCall' = [op |-> "createTerritories", points |-> points,
                          width |-> size[1], height |-> size[2]]
          /\ result' = [kind |-> "polygons",
                        territories |-> createPolygons(points, size[1], size[2])]
    /\ UNCHANGED <<territories, players, currentTurn, turnStartTime, gamePhase, winner, territoryCount,
                   troopGenerationRate, attacks, server, sampler, snapshot, restored>>

NextPolygons == CallCreateTerritories

SpecPolygons == InitPolygons /\ [][NextPolygons]_vars

\* ----------------------------------------------------------------- claims
IsAttack == lastCall.op = "processAttack"
IsValidAttack == IsAttack /\ result.success
AliveIndices(ps) == {i \in 1 .. Len(ps) : ps[i].isAlive}
OwnedCount(terr, id) == Cardinality({t \in DOMAIN terr : terr[t].owner = id})
RECURSIVE SumOwned(_, _)
SumOwned(ps, k) == IF k = 0 THEN 0 ELSE ps[k].territoriesOwned + SumOwned(ps, k - 1)
RECURSIVE TroopsOf(_, _, _)
TroopsOf(terr, id, n) ==
    IF n = 0 THEN 0
    ELSE (IF terr[n - 1].owner = id THEN terr[n - 1].troops ELSE 0)
            + TroopsOf(terr, id, n - 1)

\* The conditions under which the contract of processAttack calls an attack
\* invalid, read in the state before the call.
InvalidRequest(fromId, toId, playerId) ==
    \/ fromId \notin DOMAIN territories
    \/ toId \notin DOMAIN territories
    \/ territories[fromId].owner # playerId
    \/ territories[toId].owner = playerId
    \/ territories[fromId].troops <= 1
    \/ toId \notin territories[fromId].neighbors

\* C1: a processAttack call whose inputs fail validation (a territory id out
\* of range, from not owned by playerId, to owned by playerId, from.troops
\* <= 1, or to not a neighbor of from) returns success = false and leaves
\* every territory, every player record, currentTurn, gamePhase and winner
\* as they were.
C1_InvalidAttackChangesNothing ==
    [][(lastCall'.op = "processAttack"
          /\ InvalidRequest(lastCall'.fromId, lastCall'.toId, lastCall'.playerId))
        => /\ result'.kind = "attack"
           /\ result'.success = FALSE
           /\ UNCHANGED <<territories, players, currentTurn, gamePhase, winner>>]_vars

\* A playing game in which an attack between two territories that are not
\* neighbors, legal in every other respect, has just been rejected.
C1_Witness ==
    /\ IsAttack
    /\ ~result.success
    /\ gamePhase = "playing"
    /\ lastCall.fromId \in DOMAIN territories
    /\ lastCall.toId \in DOMAIN territories
    /\ territories[lastCall.fromId].owner = lastCall.playerId
    /\ territories[lastCall.toId].owner # lastCall.playerId
    /\ territories[lastCall.fromId].troops > 1
    /\ lastCall.toId \notin territories[lastCall.fromId].neighbors

\* C2: after every initializeGame, processAttack and nextTurn call, each
\* player's territoriesOwned is the number of territories it owns, its
\* totalTroops the sum of their troops, and isAlive holds exactly when
\* territoriesOwned > 0.
C2_AggregatesAreDerived ==
    lastCall.op \in {"initializeGame", "processAttack", "nextTurn"} =>
        \A i \in 1 .. Len(players) :
            /\ players[i].territoriesOwned = OwnedCount(territories, players[i].id)
            /\ players[i].totalTroops
                  = TroopsOf(territories, players[i].id, Cardinality(DOMAIN territories))
            /\ players[i].isAlive <=> players[i].territoriesOwned > 0

\* A conquest has just eliminated one player while another holds troops.
C2_Witness ==
    /\ IsValidAttack
    /\ result.conquered
    /\ \E i, j \in 1 .. Len(players) :
          /\ ~players[i].isAlive
          /\ players[i].territoriesOwned = 0
          /\ players[j].territoriesOwned > 1
          /\ players[j].totalTroops > 0

\* C3 as stated: after any processAttack or nextTurn call of a started game
\* the territoriesOwned of all players add up to the number of territories.
C3_Original ==
    (lastCall.op \in {"processAttack", "nextTurn"} /\ gamePhase # "lobby") =>
        SumOwned(players, Len(players)) = Cardinality(DOMAIN territories)

\* C3 (amended): after any processAttack or nextTurn call of a started game
\* the territoriesOwned of all players add up to the number of territories
\* whose owner is not null, which is at most the number of territories.
C3_SumIsOwnedTerritories ==
    (lastCall.op \in {"processAttack", "nextTurn"} /\ gamePhase # "lobby") =>
        /\ SumOwned(players, Len(players))
              = Cardinality({t \in DOMAIN territories : territories[t].owner # Null})
        /\ SumOwned(players, Len(players)) <= Cardinality(DOMAIN territories)

\* After a turn advance some territories are owned and some are not.
C3_Witness ==
    /\ lastCall.op = "nextTurn"
    /\ gamePhase = "playing"
    /\ SumOwned(players, Len(players)) > 0
    /\ \E t \in DOMAIN territories : territories[t].owner = Null

C5_WinConditionAfterTurn ==
    (lastCall.op = "nextTurn" /\ result.kind # "threw") =>
        LET alive == AliveIndices(players)
        IN /\ Cardinality(alive) = 1 =>
                /\ gamePhase = "ended"
                /\ \A i \in alive : winner = players[i].id
           /\ Cardinality(alive) = 0 => (gamePhase = "ended" /\ winner = Null)

\* The roster position of the first alive player after position `prev`
\* (0-based), going round the roster.
FirstAliveAfter(ps, prev) ==
    LET n == Len(ps)
        steps == {k \in 1 .. n : ps[((prev + k) % n) + 1].isAlive}
        least == CHOOSE k \in steps : \A m \in steps : k <= m
    IN (prev + least) % n

\* C6: if some player is alive when nextTurn is called, the current player
\* after the call is alive and is the first alive player after the previous
\* current player in roster order, cyclically.
C6_TurnRotationSkipsDead ==
    [][(lastCall'.op = "nextTurn" /\ AliveIndices(players) # {}) =>
        /\ result'.kind # "threw"
        /\ players'[(currentTurn' % Len(players')) + 1].isAlive
        /\ currentTurn' % Len(players')
              = FirstAliveAfter(players, currentTurn % Len(players))]_vars

\* nextTurn has just passed over the dead second player of three: the turn
\* went from the first player to the third.
C6_Witness ==
    /\ lastCall.op = "nextTurn"
    /\ Len(players) = 3
    /\ players[1].isAlive
    /\ ~players[2].isAlive
    /\ players[3].isAlive
    /\ currentTurn = 2

\* C7: gamePhase never changes from "ended" to "playing" or "lobby", nor
\* from "playing" to "lobby".
C7_PhaseMonotonic ==
    [][/\ gamePhase = "ended" => gamePhase' = "ended"
       /\ gamePhase = "playing" => gamePhase' # "lobby"]_vars

\* C8: winner is non-null only if gamePhase is "ended", and winner is
\* assigned only by a step that sets gamePhase to "ended".
C8_WinnerOnlyWhenEnded ==
    [][/\ winner' # Null => gamePhase' = "ended"
       /\ winner' # winner => gamePhase' = "ended"]_vars

\* C9: a valid attack with T = from.troops, D = to.troops and multipliers ra,
\* rd conquers exactly when (T - 1) * ra > D * rd.
C9_ConquestRule ==
    [][(lastCall'.op = "processAttack" /\ result'.success) =>
        \A ra \in Rolls : \A rd \in Rolls :
            processAttack(lastCall'.fromId, lastCall'.toId, lastCall'.playerId, ra, rd)
            => (result'.conquered <=>
                  (territories[lastCall'.fromId].troops - 1) * ra
                      > territories[lastCall'.toId].troops * rd)]_vars

\* Ten troops have just conquered a territory held by three.
C9_Witness ==
    /\ IsValidAttack
    /\ result.conquered
    /\ result.defenderLosses = 3
    /\ territories[result.fromId].troops = 3
    /\ territories[result.toId].troops = 4

\* C10: when a valid attack conquers, with T = from.troops, D = to.troops
\* before the call and moved = floor(0.7 * T): from.troops = T - moved,
\* to.troops = max(1, floor(0.6 * moved)), to.owner = playerId, and the result
\* has success, conquered, attackerLosses = moved - to.troops and
\* defenderLosses = D.
C10_ConquestOutcome ==
    [][(lastCall'.op = "processAttack" /\ result'.success /\ result'.conquered) =>
        LET f == lastCall'.fromId
            t == lastCall'.toId
            T == territories[f].troops
            D == territories[t].troops
            moved == (7 * T) \div 10
            entering == IF (6 * moved) \div 10 >= 1 THEN (6 * moved) \div 10 ELSE 1
        IN /\ territories'[f].troops = T - moved
           /\ territories'[t].troops = entering
           /\ territories'[t].owner = lastCall'.playerId
           /\ result'.attackerLosses = moved - territories'[t].troops
           /\ result'.defenderLosses = D]_vars

\* A conquest by two troops: the one troop moved enters at the minimum of one.
C10_Witness ==
    /\ IsValidAttack
    /\ result.conquered
    /\ result.attackerLosses = 0
    /\ territories[result.toId].troops = 1
    /\ territories[result.fromId].troops = 1

\* C11: when a valid attack does not conquer, with T = from.troops and D =
\* to.troops before the call: from.troops = T - floor(0.5 * (T - 1)), to.troops
\* = max(1, D - floor(0.3 * D)), to.owner is unchanged, and the result has
\* success, not conquered, attackerLosses = floor(0.5 * (T - 1)) and
\* defenderLosses = floor(0.3 * D), whatever the multipliers were.
C11_RepelledOutcome ==
    [][(lastCall'.op = "processAttack" /\ result'.success /\ ~result'.conquered) =>
        LET f == lastCall'.fromId
            t == lastCall'.toId
            T == territories[f].troops
            D == territories[t].troops
            lostA == (T - 1) \div 2
            lostD == (3 * D) \div 10
        IN /\ territories'[f].troops = T - lostA
           /\ territories'[t].troops = (IF D - lostD >= 1 THEN D - lostD ELSE 1)
           /\ territories'[t].owner = territories[t].owner
           /\ territories'[f].owner = territories[f].owner
           /\ result'.attackerLosses = lostA
           /\ result'.defenderLosses = lostD]_vars

\* Ten troops were repelled by ten: the attacker lost four (half of its
\* attack power of nine, rounded down) and the defender three.
C11_Witness ==
    /\ IsValidAttack
    /\ ~result.conquered
    /\ result.attackerLosses = 4
    /\ result.defenderLosses = 3
    /\ territories[result.fromId].troops = 6
    /\ territories[result.toId].troops = 7

\* C12: in every state reached from initializeGame through processAttack and
\* nextTurn calls, every territory, owned or not, has an integer troop count
\* of at least 1; the attacking territory keeps at least 1 troop.
C12_TroopsAtLeastOne ==
    gamePhase # "lobby" =>
        \A t \in DOMAIN territories :
            /\ territories[t].troops \in Int
            /\ territories[t].troops >= 1

\* An attack has just left its origin with a single troop.
C12_Witness ==
    /\ IsValidAttack
    /\ territories[result.fromId].troops = 1

\* C13: one nextTurn call adds exactly troopGenerationRate troops to every
\* territory with a non-null owner, once, however many dead players the turn
\* cursor passes over, and leaves the troops of unowned territories and the
\* owner of every territory unchanged.
C13_TroopGeneration ==
    [][lastCall'.op = "nextTurn" =>
        /\ DOMAIN territories' = DOMAIN territories
        /\ \A t \in DOMAIN territories :
              /\ territories'[t].owner = territories[t].owner
              /\ territories'[t].troops =
                    (IF territories[t].owner # Null
                     THEN territories[t].troops + troopGenerationRate
                     ELSE territories[t].troops)]_vars

\* With a generation rate of 2, nextTurn has just passed over two dead
\* players on a map that has owned and unowned territories.
C13_Witness ==
    /\ lastCall.op = "nextTurn"
    /\ lastCall.skipped = 2
    /\ troopGenerationRate = 2
    /\ \E t \in DOMAIN territories : territories[t].owner = Null
    /\ \E t \in DOMAIN territories : territories[t].owner # Null

\* C14: after initializeGame with P >= 1 players on N territories each player
\* owns exactly floor(N / P / 2) territories, each with 15 troops, every other
\* territory is unowned with 5 troops, gamePhase is "playing" and currentTurn
\* is 0; with 2 to 8 players on 60 territories every player is alive.
C14_StartingPosition ==
    (lastCall.op = "initializeGame" /\ lastCall.count >= 1) =>
        LET N == Cardinality(DOMAIN territories)
            P == Len(players)
            share == CHOOSE k \in 0 .. N : 2 * P * k <= N /\ 2 * P * (k + 1) > N
            roster == {players[i].id : i \in 1 .. P}
        IN /\ P = lastCall.count
           /\ N = territoryCount
           /\ \A i \in 1 .. P : OwnedCount(territories, players[i].id) = share
           /\ \A t \in DOMAIN territories :
                 \/ territories[t].owner \in roster /\ territories[t].troops = 15
                 \/ territories[t].owner = Null /\ territories[t].troops = 5
           /\ Cardinality({t \in DOMAIN territories : territories[t].owner = Null})
                 = N - P * share
           /\ gamePhase = "playing"
           /\ currentTurn = 0
           /\ (N = 60 /\ P >= 2 /\ P <= 8) =>
                 \A i \in 1 .. P : players[i].isAlive

\* Eight players have just been dealt three territories each out of sixty.
C14_Witness ==
    /\ lastCall.op = "initializeGame"
    /\ lastCall.count = 8
    /\ Cardinality(DOMAIN territories) = 60
    /\ \A i \in 1 .. 8 : players[i].territoriesOwned = 3 /\ players[i].totalTroops = 45
    /\ gamePhase = "playing"

\* C15: a processAttack call made for a player who is not the current player
\* returns a failure result and changes no state, even when that player owns
\* the source territory and the move is otherwise legal.
C15_OnlyCurrentPlayerAttacks ==
    [][(/\ lastCall'.op = "processAttack"
        /\ \E i \in 1 .. Len(players) : players[i].id = lastCall'.playerId
        /\ lastCall'.playerId # getCurrentPlayer(players, currentTurn).id)
        => /\ result'.success = FALSE
           /\ UNCHANGED <<territories, players, currentTurn, gamePhase, winner>>]_vars

\* C18: in every state of a started game in which no territory is unowned,
\* gamePhase is "ended".
C18_EndsWhenMapIsOwned ==
    (gamePhase # "lobby" /\ DOMAIN territories # {}
        /\ \A t \in DOMAIN territories : territories[t].owner # Null)
    => gamePhase = "ended"

\* The map most recently returned by generateMap.
IsMap == result.kind = "map"
WithinThreshold(a, b) ==
    distanceSquared(a.center, b.center) < NeighborThreshold * NeighborThreshold

\* C19 as stated: in every map returned by generateMap with count >= 1 every
\* territory has at least one neighbor.
C19_Original ==
    (IsMap /\ lastCall.count >= 1) =>
        \A k \in 1 .. Len(result.territories) : result.territories[k].neighbors # {}

\* C19 (amended): in every map returned by generateMap with count >= 2 every
\* territory has at least one neighbor, which is another territory of the map.
C19_EveryTerritoryHasNeighbor ==
    (IsMap /\ lastCall.count >= 2) =>
        \A k \in 1 .. Len(result.territories) :
            \E m \in 1 .. Len(result.territories) :
                /\ m # k
                /\ result.territories[m].id \in result.territories[k].neighbors

\* A map of three territories in which the third is not within the threshold
\* of any other, while the first two are within it of one another.
C19_Witness ==
    /\ IsMap
    /\ Len(result.territories) = 3
    /\ WithinThreshold(result.territories[1], result.territories[2])
    /\ ~WithinThreshold(result.territories[3], result.territories[1])
    /\ ~WithinThreshold(result.territories[3], result.territories[2])
    /\ result.territories[3].neighbors # {}

\* C20: in every map returned by generateMap adjacency is symmetric, the
\* edges added by the nearest-territory fallback included, and the territory
\* at index i has id i, for i in 0 .. count - 1.
C20_SymmetricDenseIds ==
    IsMap =>
        LET m == result.territories
        IN /\ Len(m) = lastCall.count
           /\ \A k \in 1 .. Len(m) : m[k].id = k - 1
           /\ \A k \in 1 .. Len(m) : m[k].neighbors \subseteq 0 .. Len(m) - 1
           /\ \A k \in 1 .. Len(m) : \A n \in 1 .. Len(m) :
                 (m[n].id \in m[k].neighbors) <=> (m[k].id \in m[n].neighbors)

\* A map with an edge that only the fallback can have added (its ends are
\* not within the threshold), ending at a territory that has another
\* neighbor within the threshold.
C20_Witness ==
    /\ IsMap
    /\ \E k, n, o \in 1 .. Len(result.territories) :
          /\ k # n /\ n # o /\ k # o
          /\ ~WithinThreshold(result.territories[k], result.territories[n])
          /\ result.territories[n].id \in result.territories[k].neighbors
          /\ result.territories[k].id \in result.territories[n].neighbors
          /\ WithinThreshold(result.territories[n], result.territories[o])
          /\ result.territories[o].id \in result.territories[n].neighbors

\* C16: a nextTurn call made by the callback of a timeout ends the turn that
\* timeout was armed in, in the room it was armed for: a timeout armed for a
\* turn that has ended already, or for a room that has been replaced, causes
\* no nextTurn.
C16_OneNextTurnPerTurn ==
    [][(/\ server'.event.kind \in {"turnTimeout", "aiEnd"}
        /\ lastCall'.op = "nextTurn"
        /\ currentTurn' > currentTurn)
        => \A h \in server'.event.timer :
              /\ h.room = server.room
              /\ h.turn = currentTurn]_vars

\* A turn timeout is pending for the room.
TurnTimeoutPending ==
    /\ server.turnTimer # {}
    /\ server.turnTimer \subseteq server.timers
    /\ \A h \in server.turnTimer : h.kind = "turn" /\ h.room = server.room

\* C17: while the room's gamePhase is "playing" a turn timeout is pending
\* for the room, and (pending timeouts eventually running) every turn of a
\* playing game is eventually ended by a nextTurn call even if nobody sends
\* endTurn: from turn k the turn counter eventually passes k.
C17_EveryTurnIsBounded ==
    /\ []((server.room > 0 /\ gamePhase = "playing") => TurnTimeoutPending)
    /\ \A k \in 0 .. MaxServerTurn - 1 :
          (server.room > 0 /\ gamePhase = "playing" /\ currentTurn = k)
              ~> (currentTurn > k)

\* A turn of a playing game has just been ended by its timeout, and the
\* timeout of the next turn is pending.
C17_Witness ==
    /\ server.event.kind = "turnTimeout"
    /\ lastCall.op = "nextTurn"
    /\ gamePhase = "playing"
    /\ currentTurn > 0
    /\ TurnTimeoutPending
    /\ \A h \in server.turnTimer : h.turn = currentTurn


\* C21: while generatePoints places a point, at most maxAttempts (30) draws
\* are rejected before a drawn point is accepted.
C21_RetriesAreCapped ==
    sampler.state = "running" => sampler.rejected <= maxAttempts

\* C22: every territory made by createTerritories has a polygon of at least
\* 3 vertices.
C22_PolygonsHaveThreeVertices ==
    result.kind = "polygons" =>
        \A k \in 1 .. Len(result.territories) : Len(result.territories[k].vertices) >= 3

\* C23: deserialize(serialize(s)) has, for every territory id, the owner,
\* troops and neighbors of s, and the player roster, currentTurn, gamePhase
\* and winner of s.
C23_RoundTripKeepsState ==
    lastCall.op = "roundTrip" =>
        /\ restored.built
        /\ DOMAIN restored.g.territories = DOMAIN territories
        /\ \A id \in DOMAIN territories :
              /\ restored.g.territories[id].owner = territories[id].owner
              /\ restored.g.territories[id].troops = territories[id].troops
              /\ restored.g.territories[id].neighbors = territories[id].neighbors
        /\ restored.g.players = players
        /\ restored.g.currentTurn = currentTurn
        /\ restored.g.gamePhase = gamePhase
        /\ restored.g.winner = winner

\* The round trip of a game that has ended with a winner after a turn advance.
C23_Witness ==
    /\ lastCall.op = "roundTrip"
    /\ restored.built
    /\ gamePhase = "ended"
    /\ winner # Null
    /\ currentTurn > 0
    /\ \E id \in DOMAIN territories : territories[id].troops # InitialTroops

\* C24: after the round trip, the same nextTurn and processAttack calls with
\* the same draws leave the game built by deserialize with the territory
\* owners and troops, currentTurn, gamePhase and winner of the engine.
C24_RoundTripKeepsBehaviour ==
    restored.built =>
        /\ \A id \in DOMAIN territories :
              /\ restored.g.territories[id].owner = territories[id].owner
              /\ restored.g.territories[id].troops = territories[id].troops
        /\ restored.g.currentTurn = currentTurn
        /\ restored.g.gamePhase = gamePhase
        /\ restored.g.winner = winner

\* C25: no processAttack or nextTurn call on the engine changes an object
\* that serialize has returned.
C25_SnapshotIsImmutable ==
    [][(snapshot.taken /\ lastCall'.op \in {"processAttack", "nextTurn"})
        => snapshot' = snapshot]_vars

LegalAttacks(playerId) ==
    {x \in Ids(territories) \X Ids(territories) :
        /\ territories[x[1]].owner = playerId
        /\ territories[x[1]].troops > 1
        /\ x[2] \in territories[x[1]].neighbors
        /\ territories[x[2]].owner # playerId}

C27_NoneIffNoLegalAttack ==
    lastCall.op = "makeDecision" =>
        LET legal == LegalAttacks(lastCall.playerId)
        IN /\ ~result.found <=> legal = {}
           /\ Cardinality(legal) = 1 =>
                 /\ result.found
                 /\ <<result.fromId, result.toId>> \in legal

\* an easy bot returned the only legal attack
C27_Witness ==
    /\ lastCall.op = "makeDecision"
    /\ lastCall.difficulty = "easy"
    /\ Cardinality(LegalAttacks(lastCall.playerId)) = 1
    /\ result.found

\* The 0-based position of the returned attack among the candidates sorted
\* by descending score.
ReturnedRank ==
    LET candidates == possibleAttacks(territories, players, lastCall.playerId,
                                      lastCall.difficulty)
    IN rankOf([fromId |-> result.fromId, toId |-> result.toId, score |-> result.score],
              candidates)

\* C28: with n candidates, the returned attack has rank below
\* max(1, floor(n/2)) for easy, below max(1, floor(0.3 n)) for medium, and
\* rank 0 or 1 for hard (0 when n = 1).
C28_RankWithinDifficulty ==
    (lastCall.op = "makeDecision" /\ result.found) =>
        LET n == Cardinality(LegalAttacks(lastCall.playerId))
            half == IF n \div 2 >= 1 THEN n \div 2 ELSE 1
            third == IF (3 * n) \div 10 >= 1 THEN (3 * n) \div 10 ELSE 1
        IN /\ lastCall.difficulty = "easy" => ReturnedRank < half
           /\ lastCall.difficulty = "medium" => ReturnedRank < third
           /\ lastCall.difficulty = "hard" =>
                 /\ ReturnedRank \in {0, 1}
                 /\ n = 1 => ReturnedRank = 0

\* a medium bot returned the second of at least seven candidates
C28_Witness ==
    /\ lastCall.op = "makeDecision"
    /\ result.found
    /\ lastCall.difficulty = "medium"
    /\ Cardinality(LegalAttacks(lastCall.playerId)) >= 7
    /\ ReturnedRank = 1

\* The score the scoring rules give the attack of lastCall for a difficulty,
\* in tenths, and the sum it is made of.
RuleSum ==
    LET from == territories[lastCall.fromId]
        to == territories[lastCall.toId]
        me == lastCall.playerId
        owners == {i \in 1 .. Len(players) : players[i].id = to.owner}
    IN 10 * (from.troops - to.troops)
       + (IF to.owner = Null THEN 20 ELSE 0)
       + (IF owners # {}
          THEN 5 * (10 - players[CHOOSE i \in owners : TRUE].territoriesOwned)
          ELSE 0)
       + 3 * Cardinality(to.neighbors)
       - (IF (\E n \in from.neighbors : territories[n].owner # me) /\ from.troops < 5
          THEN 30 ELSE 0)
       + 8 * Cardinality({n \in to.neighbors : territories[n].owner = me})

RuleScore(difficulty) ==
    LET from == territories[lastCall.fromId]
        to == territories[lastCall.toId]
        tenths == IF difficulty = "easy" THEN 10 - 3
                  ELSE IF difficulty = "medium" THEN 10 - 5
                  ELSE 10 - 8
    IN IF from.troops < to.troops THEN RuleSum * tenths ELSE RuleSum * 10

\* C29: evaluateAttack(from, to) is 10 (from.troops - to.troops), + 20 if
\* to is unowned, + 5 (10 - territoriesOwned of to's owner) if a player of
\* the roster owns to, + 3 |to.neighbors|, - 30 if from has a neighbor that
\* is not playerId's and from.troops < 5, + 8 per neighbor of to that
\* playerId owns, the sum multiplied by 1 - aggressiveness (0.3, 0.5, 0.8
\* for easy, medium, hard) when from.troops < to.troops.
C29_ScoreIsTheRuleSum ==
    lastCall.op = "evaluateAttack" => result.score = RuleScore(lastCall.difficulty)

\* a risky attack on a player's territory from a weak border territory
C29_Witness ==
    /\ lastCall.op = "evaluateAttack"
    /\ territories[lastCall.fromId].troops < territories[lastCall.toId].troops
    /\ territories[lastCall.fromId].troops < 5
    /\ territories[lastCall.toId].owner = "b"
    /\ territories[lastCall.fromId].owner = "a"
    /\ lastCall.toId \in territories[lastCall.fromId].neighbors
    /\ result.score # 0

\* The score each difficulty gives the attack of lastCall
ScoreOf(difficulty) ==
    evaluateAttack(territories[lastCall.fromId], territories[lastCall.toId],
                   territories, players, lastCall.playerId, difficulty)

\* C30: for an attack with from.troops < to.troops the score after the
\* aggressiveness modifier is never higher than the score before it, and
\* score(easy) <= score(medium) <= score(hard).
C30_CautiousBotsDampenMore ==
    (/\ lastCall.op = "evaluateAttack"
     /\ territories[lastCall.fromId].troops < territories[lastCall.toId].troops) =>
        /\ result.score <= 10 * scoreBeforeModifier(territories[lastCall.fromId],
                                                   territories[lastCall.toId],
                                                   territories, players, lastCall.playerId)
        /\ ScoreOf("easy") <= ScoreOf("medium")
        /\ ScoreOf("medium") <= ScoreOf("hard")

\* C31: with an empty player list no engine operation raises an error:
\* initializeGame([]) leaves every territory unowned and gamePhase
\* "playing", and the nextTurn, getCurrentPlayer and processAttack calls that
\* follow return normally.
C31_EmptyRosterNeverThrows ==
    /\ (lastCall.op = "initializeGame" /\ lastCall.count = 0) =>
          /\ gamePhase = "playing"
          /\ \A t \in Ids(territories) : territories[t].owner = Null
    /\ (Len(players) = 0 /\ gamePhase = "playing") => result.kind # "threw"

\* C32: every proposal of the bot is a legal move: when makeDecision
\* returns {fromId, toId}, processAttack(fromId, toId, playerId) on that
\* same state passes validation and returns success = true.
C32_ProposalsAreLegal ==
    [][(/\ lastCall.op = "makeDecision"
        /\ result.found
        /\ lastCall'.op = "processAttack") =>
          /\ validateAttack(territories, result.fromId, result.toId, lastCall.playerId)
          /\ result'.kind = "attack"
          /\ result'.success]_vars

\* a proposal was carried out and conquered its target
C32_Witness ==
    /\ lastCall.op = "processAttack"
    /\ lastCall.playerId = "a"
    /\ result.kind = "attack"
    /\ result.success
    /\ result.conquered
    /\ attacks = 1

\* C33: an 'attack' or 'endTurn' request from a socket whose id is not the
\* id of the room's current player is rejected with 'Not your turn':
\* processAttack and nextTurn are not invoked, and the room's game state and
\* pending timers are unchanged.
C33_NotYourTurnChangesNothing ==
    [][(/\ server'.event.kind \in {"attack", "endTurn", "notYourTurn"}
        /\ ~server'.event.fromCurrentPlayer) =>
          /\ server'.emitted = {errorMessage("Not your turn")}
          /\ lastCall' = lastCall
          /\ attacks' = attacks
          /\ territories' = territories
          /\ players' = players
          /\ currentTurn' = currentTurn
          /\ gamePhase' = gamePhase
          /\ winner' = winner
          /\ server'.timers = server.timers
          /\ server'.turnTimer = server.turnTimer
          /\ server'.room = server.room]_vars

\* a player of the room was refused an attack that the engine would accept
C33_Witness ==
    /\ server.event.kind = "notYourTurn"
    /\ gamePhase = "playing"
    /\ \E i \in 1 .. Len(players) :
          /\ players[i].id # getCurrentPlayer(players, currentTurn).id
          /\ players[i].id \in Sockets(server)
          /\ \E f, t \in Ids(territories) :
                validateAttack(territories, f, t, players[i].id)

\* C34: in the server, where only the current player's attacks reach the
\* engine, in every reachable state of a started game whose gamePhase is
\* "playing" the current player (players[currentTurn mod playerCount]) is
\* alive.
C34_CurrentPlayerIsAlive ==
    gamePhase = "playing" => getCurrentPlayer(players, currentTurn).isAlive

\* the turn passed over an eliminated player while the game goes on
C34_Witness ==
    /\ gamePhase = "playing"
    /\ lastCall.op = "nextTurn"
    /\ lastCall.skipped > 0
    /\ \E i \in 1 .. Len(players) : ~players[i].isAlive
    /\ getCurrentPlayer(players, currentTurn).isAlive

\* C35: the end of the game is stable: once gamePhase is "ended", after
\* any further processAttack or nextTurn call gamePhase is still "ended" and
\* winner is the same player (or still null for a draw).
C35_EndIsStable ==
    [][(gamePhase = "ended" /\ lastCall'.op \in {"processAttack", "nextTurn"}) =>
          /\ gamePhase' = "ended"
          /\ winner' = winner]_vars

\* C36: once gamePhase is "ended" the world is frozen: no later
\* processAttack or nextTurn call, whether a human request, the AI loop or a
\* timer of the server issues it, changes the owner or the troops of a
\* territory or the turn counter.
C36_WorldIsFrozenAfterEnd ==
    [][(gamePhase = "ended" /\ lastCall'.op \in {"processAttack", "nextTurn"}) =>
          /\ \A t \in Ids(territories) :
                /\ territories'[t].owner = territories[t].owner
                /\ territories'[t].troops = territories[t].troops
          /\ currentTurn' = currentTurn]_vars

\* C37: elimination is permanent: a player whose isAlive is false stays so
\* after every later processAttack and nextTurn call, and the roster (the
\* ids and their order) never changes.
C37_EliminationIsPermanent ==
    [][lastCall'.op \in {"processAttack", "nextTurn"} =>
          /\ Len(players') = Len(players)
          /\ \A i \in 1 .. Len(players) :
                /\ players'[i].id = players[i].id
                /\ ~players[i].isAlive => ~players'[i].isAlive]_vars

\* an attack was resolved while a player was eliminated already
C37_Witness ==
    /\ lastCall.op = "processAttack"
    /\ result.kind = "attack"
    /\ result.success
    /\ result.conquered
    /\ attacks >= 3
    /\ ~players[2].isAlive
    /\ players[1].isAlive
    /\ lastCall.playerId = Null

\* C38: a successful processAttack(fromId, toId, playerId) changes, among
\* the territories, only the troops of fromId and the troops and owner of
\* toId: every other territory, every neighbor set, the order of the roster,
\* currentTurn and turnStartTime are as before, and no territory owned by
\* playerId before the call has another owner after it.
C38_AttackFrame ==
    [][(lastCall'.op = "processAttack" /\ result'.kind = "attack" /\ result'.success) =>
          LET fromId == lastCall'.fromId
              toId == lastCall'.toId
              playerId == lastCall'.playerId
          IN /\ Ids(territories') = Ids(territories)
             /\ \A t \in Ids(territories) \ {fromId, toId} :
                   territories'[t] = territories[t]
             /\ territories'[fromId].owner = territories[fromId].owner
             /\ \A t \in Ids(territories) :
                   territories'[t].neighbors = territories[t].neighbors
             /\ Len(players') = Len(players)
             /\ \A i \in 1 .. Len(players) : players'[i].id = players[i].id
             /\ currentTurn' = currentTurn
             /\ turnStartTime' = turnStartTime
             /\ \A t \in Ids(territories) :
                   territories[t].owner = playerId => territories'[t].owner = playerId]_vars

\* A conquest by player a in the turn after a turn advance, in a game that
\* goes on
C38_Witness ==
    /\ lastCall.op = "processAttack"
    /\ result.kind = "attack"
    /\ result.success
    /\ result.conquered
    /\ lastCall.playerId = "a"
    /\ currentTurn = 1
    /\ turnStartTime = DateNow(185)
    /\ gamePhase = "playing"
    /\ territories[lastCall.toId].owner = "a"

\* C39: combat never creates troops: after a successful processAttack the
\* troops of from and to together are at most what they were before it, and
\* the attackerLosses and defenderLosses it reports are both >= 0.
C39_CombatNeverCreatesTroops ==
    [][(lastCall'.op = "processAttack" /\ result'.kind = "attack" /\ result'.success) =>
          LET fromId == lastCall'.fromId
              toId == lastCall'.toId
          IN /\ territories'[fromId].troops + territories'[toId].troops
                   <= territories[fromId].troops + territories[toId].troops
             /\ result'.attackerLosses >= 0
             /\ result'.defenderLosses >= 0]_vars

\* A conquest from two troops: one troop moves and Math.max(1, ...) keeps it
\* alive, the attacker loses nothing
C39_Witness ==
    /\ lastCall.op = "processAttack"
    /\ result.kind = "attack"
    /\ result.success
    /\ result.conquered
    /\ result.attackerLosses = 0
    /\ territories[lastCall.fromId].troops = 1
    /\ territories[lastCall.toId].troops = 1

\* A 'gameEnded' event is among the messages of the handler that ran last.
GameEndedEmitted == \E m \in server.emitted : m.msg = "gameEnded"

\* A turn timeout is pending: a setTimeout of startTurnTimer for the room's
\* key in gameRooms that has neither run nor been cleared.
PendingTurnTimeouts == {h \in server.timers : h.kind = "turn"}

\* The first part of C40: the handler in which the room's gamePhase becomes
\* "ended" (the 'attack' handler or handleAITurn) broadcasts a snapshot with
\* gamePhase "ended" and the winner.
C40_EndIsBroadcast ==
    [][(server.room > 0 /\ gamePhase # "ended" /\ gamePhase' = "ended") =>
          gameStateMessage("gameStateUpdate", "ended", winner') \in server'.emitted]_vars

\* The second part of C40: once the game of a room has ended, 'gameEnded' is
\* eventually emitted (pending timeouts eventually running; the turn counter
\* of the model stops at MaxServerTurn).
C40_GameEndedIsEmitted ==
    (server.room > 0 /\ gamePhase = "ended" /\ currentTurn < MaxServerTurn)
        ~> GameEndedEmitted

\* C40: in the server, when the game of a room has ended and 'gameEnded' has
\* been emitted to the room, no turn timeout remains pending for the room
\* (the snapshot with gamePhase "ended" and the winner having been broadcast,
\* C40_EndIsBroadcast, and 'gameEnded' being eventually emitted,
\* C40_GameEndedIsEmitted).
C40_NoTimeoutAfterGameEnded ==
    GameEndedEmitted => PendingTurnTimeouts = {}

TypeOK ==
    /\ gamePhase \in {"lobby", "playing", "ended"}
    /\ currentTurn \in Nat
    /\ \A t \in Ids(territories) : territories[t].troops \in Nat
====
